---------------------------- MODULE Spec2Model ----------------------------
(***************************************************************************)
(* A state-machine model of the canvas video player in src/src/main.ts     *)
(* (class VideoPlayer).  The player's fields, the browser objects it       *)
(* commands (the two <video> elements, localStorage, the canvas) and the   *)
(* continuations of its async functions are the state; every event         *)
(* handler is one action.                                                  *)
(*                                                                         *)
(* JavaScript numbers that the program parses, formats and adds (the       *)
(* volume) are modelled as IEEE-754 binary64 values with exact integer     *)
(* arithmetic on big naturals, so that 0.4 + 0.2 is 0.6000000000000001     *)
(* here as it is in the browser.                                           *)
(***************************************************************************)
EXTENDS Integers, Sequences, FiniteSets, TLC

(***************************************************************************)
(* PART 1.  Big naturals: little-endian sequences of base-10000 limbs,     *)
(* without high zero limbs (zero is the empty sequence).  The operators    *)
(* are written with as little recursion as the carries allow.              *)
(***************************************************************************)
Base == 100 * 100

MaxOf(x, y) == IF x >= y THEN x ELSE y

MinOf(x, y) == IF x <= y THEN x ELSE y

SetMax(S) == CHOOSE x \in S : \A y \in S : y <= x

SetMin(S) == CHOOSE x \in S : \A y \in S : x <= y

Trim(a) ==
    LET nz == {i \in 1..Len(a) : a[i] # 0}
    IN  IF nz = {} THEN <<>> ELSE SubSeq(a, 1, SetMax(nz))

Limb(a, i) == IF i <= Len(a) THEN a[i] ELSE 0

RECURSIVE Pow(_, _)
Pow(b, n) == IF n = 0 THEN 1 ELSE b * Pow(b, n - 1)

\* a * k for a small multiplier k (k * Base stays below 2^31)
RECURSIVE MulSmallFrom(_, _, _, _)
MulSmallFrom(a, k, i, carry) ==
    IF i > Len(a)
    THEN (IF carry = 0 THEN <<>> ELSE <<carry % Base, carry \div Base>>)
    ELSE <<(a[i] * k + carry) % Base>>
             \o MulSmallFrom(a, k, i + 1, (a[i] * k + carry) \div Base)

MulSmall(a, k) == Trim(MulSmallFrom(a, k, 1, 0))

\* a + b: limb i receives a carry iff some lower limb pair overflows and
\* every pair in between is exactly Base - 1
BigAdd(a, b) ==
    LET n == MaxOf(Len(a), Len(b)) + 1
        s(i) == Limb(a, i) + Limb(b, i)
        c(i) == IF \E j \in 1..(i - 1) :
                     s(j) >= Base /\ \A k \in (j + 1)..(i - 1) : s(k) = Base - 1
                THEN 1 ELSE 0
    IN  Trim([i \in 1..n |-> (s(i) + c(i)) % Base])

\* comparison: -1, 0, 1 as a < b, a = b, a > b
BigCmp(a, b) ==
    IF Len(a) < Len(b) THEN -1
    ELSE IF Len(a) > Len(b) THEN 1
    ELSE LET d == {i \in 1..Len(a) : a[i] # b[i]}
         IN  IF d = {} THEN 0
             ELSE IF a[SetMax(d)] < b[SetMax(d)] THEN -1 ELSE 1

\* a - b for a >= b: limb i lends iff some lower limb of a is below b's
\* and the limbs in between are equal
BigSub(a, b) ==
    LET w(i) == IF \E j \in 1..(i - 1) :
                     a[j] < Limb(b, j) /\ \A k \in (j + 1)..(i - 1) : a[k] = Limb(b, k)
                THEN 1 ELSE 0
    IN  Trim([i \in 1..Len(a) |-> (a[i] - Limb(b, i) - w(i) + Base) % Base])

\* quotient and remainder of a by a small divisor d (d * Base below 2^31),
\* from the high limb down: <<quotient limbs (little-endian), remainder>>
RECURSIVE DivSmallFrom(_, _, _, _)
DivSmallFrom(a, d, i, rem) ==
    IF i = 0 THEN <<<<>>, rem>>
    ELSE LET rest == DivSmallFrom(a, d, i - 1, (rem * Base + a[i]) % d)
         IN  <<Append(rest[1], (rem * Base + a[i]) \div d), rest[2]>>

DivSmall(a, d) ==
    LET r == DivSmallFrom(a, d, Len(a), 0) IN <<Trim(r[1]), r[2]>>

IsOdd(a) == a # <<>> /\ a[1] % 2 = 1

\* a * 2^n, a * 5^n, a * 10^n, a chunk at a time so that every product fits
RECURSIVE MulPow2(_, _)
MulPow2(a, n) ==
    IF n = 0 \/ a = <<>> THEN a
    ELSE IF n >= 16 THEN MulPow2(MulSmall(a, 65536), n - 16)
    ELSE MulSmall(a, Pow(2, n))

RECURSIVE MulPow5(_, _)
MulPow5(a, n) ==
    IF n = 0 \/ a = <<>> THEN a
    ELSE IF n >= 7 THEN MulPow5(MulSmall(a, 78125), n - 7)
    ELSE MulSmall(a, Pow(5, n))

MulPow10(a, n) ==
    IF a = <<>> THEN <<>>
    ELSE [i \in 1..(n \div 4) |-> 0] \o MulSmall(a, Pow(10, n % 4))

\* <<a div 2^n, a mod 2^n # 0>>; inexact carries an earlier remainder
RECURSIVE DivPow2(_, _, _)
DivPow2(a, n, inexact) ==
    IF n = 0 \/ a = <<>> THEN <<a, inexact>>
    ELSE IF n >= 16
         THEN DivPow2(DivSmall(a, 65536)[1], n - 16, inexact \/ DivSmall(a, 65536)[2] # 0)
         ELSE <<DivSmall(a, Pow(2, n))[1], inexact \/ DivSmall(a, Pow(2, n))[2] # 0>>

\* <<a div 10^n, a mod 10^n # 0>>
DivPow10(a, n) ==
    LET q    == n \div 4
        low  == {i \in 1..MinOf(q, Len(a)) : a[i] # 0}
        high == IF q >= Len(a) THEN <<>> ELSE SubSeq(a, q + 1, Len(a))
        qr   == DivSmall(high, Pow(10, n % 4))
    IN  <<qr[1], low # {} \/ qr[2] # 0>>

Big(n) == IF n = 0 THEN <<>> ELSE MulSmall(<<1>>, n)

(***************************************************************************)
(* PART 2.  JavaScript Number values (IEEE-754 binary64).  A finite value  *)
(* is (-1)^neg * m * 2^e with m a big natural below 2^53, kept odd (or     *)
(* zero with e = 0) so that equal numbers are equal records.  Infinities   *)
(* and subnormals are outside the range the model's inputs reach.          *)
(***************************************************************************)
NaN == [nan |-> TRUE, neg |-> FALSE, m |-> <<>>, e |-> 0]

\* the largest bit length the arithmetic below meets
MaxBits == 160

PowersOfTwo == [j \in 0..MaxBits |-> MulPow2(<<1>>, j)]

\* the number of bits of n: the least j with n < 2^j (a limb holds between
\* 13 and 14 bits)
BitLen(n) ==
    IF n = <<>> THEN 0
    ELSE SetMin({j \in (13 * (Len(n) - 1) + 1)..(14 * Len(n)) :
                     BigCmp(n, PowersOfTwo[j]) < 0})

\* the number of trailing zero bits among the lowest three of an odd-or-not limb
LowZeros(l) == IF l % 2 = 1 THEN 0 ELSE IF l % 4 # 0 THEN 1 ELSE IF l % 8 # 0 THEN 2 ELSE 3

\* strip the binary trailing zeros of the significand (Base is a multiple
\* of 16, so the low four bits of n are those of its lowest limb)
RECURSIVE Normalize(_, _, _)
Normalize(neg, m, e) ==
    IF m = <<>> THEN [nan |-> FALSE, neg |-> neg, m |-> <<>>, e |-> 0]
    ELSE IF m[1] % 16 = 0 THEN Normalize(neg, DivSmall(m, 16)[1], e + 4)
    ELSE [nan |-> FALSE, neg |-> neg,
          m |-> DivSmall(m, Pow(2, LowZeros(m[1])))[1], e |-> e + LowZeros(m[1])]

\* the binary64 value nearest to (-1)^neg * (n + fraction) * 2^e, ties to
\* even: n loses its bits beyond the 53rd, the last of them is the guard
\* bit, the others (and a dropped non-zero fraction, inexact) are sticky
RoundGuard(neg, top, sticky, e) ==
    Normalize(neg,
              IF top[2] = 1 /\ (sticky \/ IsOdd(top[1])) THEN BigAdd(top[1], <<1>>) ELSE top[1],
              e)

RoundSticky(neg, low, e) == RoundGuard(neg, DivSmall(low[1], 2), low[2], e)

RoundBits(neg, n, e, inexact, sh) ==
    IF sh <= 0 THEN Normalize(neg, n, e)
    ELSE RoundSticky(neg, DivPow2(n, sh - 1, inexact), e + sh)

RoundToDouble(neg, n, e, inexact) == RoundBits(neg, n, e, inexact, BitLen(n) - 53)

FromInt(i) ==
    IF i < 0 THEN Normalize(TRUE, Big(0 - i), 0) ELSE Normalize(FALSE, Big(i), 0)

\* comparison of the magnitudes of two finite values: -1, 0, 1
CmpMag(a, b) ==
    BigCmp(MulPow2(a.m, a.e - MinOf(a.e, b.e)), MulPow2(b.m, b.e - MinOf(a.e, b.e)))

\* comparison of two finite values: -1, 0, 1 (-0 equals 0)
FCmp(a, b) ==
    IF a.m = <<>> /\ b.m = <<>> THEN 0
    ELSE IF a.neg /\ ~b.neg THEN -1
    ELSE IF ~a.neg /\ b.neg THEN 1
    ELSE IF a.neg THEN 0 - CmpMag(a, b) ELSE CmpMag(a, b)

\* a < b, a > b, a <= b, a >= b as JavaScript evaluates them (false on NaN)
FLt(a, b) == ~a.nan /\ ~b.nan /\ FCmp(a, b) < 0
FGt(a, b) == ~a.nan /\ ~b.nan /\ FCmp(a, b) > 0
FLe(a, b) == ~a.nan /\ ~b.nan /\ FCmp(a, b) <= 0
FGe(a, b) == ~a.nan /\ ~b.nan /\ FCmp(a, b) >= 0

\* a + b, correctly rounded
AddAligned(aneg, am, bneg, bm, e) ==
    IF aneg = bneg THEN RoundToDouble(aneg, BigAdd(am, bm), e, FALSE)
    ELSE IF BigCmp(am, bm) = 0 THEN Normalize(FALSE, <<>>, 0)
    ELSE IF BigCmp(am, bm) > 0 THEN RoundToDouble(aneg, BigSub(am, bm), e, FALSE)
    ELSE RoundToDouble(bneg, BigSub(bm, am), e, FALSE)

AddAt(a, b, e) == AddAligned(a.neg, MulPow2(a.m, a.e - e), b.neg, MulPow2(b.m, b.e - e), e)

FAdd(a, b) == IF a.nan \/ b.nan THEN NaN ELSE AddAt(a, b, MinOf(a.e, b.e))

\* the binary64 value nearest to (-1)^neg * d * 10^x (the rounding of a
\* decimal literal): for x < 0 the quotient d * 2^k / 10^-x is taken with
\* k large enough to leave it 55 bits or more (log2 10 < 10/3)
RoundQuotient(neg, qr, e) == RoundToDouble(neg, qr[1], e, qr[2])

ScaledQuotient(neg, d, x, k) == RoundQuotient(neg, DivPow10(MulPow2(d, k), 0 - x), 0 - k)

DecimalToDouble(neg, d, x) ==
    IF d = <<>> THEN Normalize(neg, <<>>, 0)
    ELSE IF x >= 0 THEN RoundToDouble(neg, MulPow10(d, x), 0, FALSE)
    ELSE ScaledQuotient(neg, d, x, MaxOf(0, 57 - BitLen(d) + ((0 - x) * 10) \div 3))

(***************************************************************************)
(* PART 3.  Text.  A string is a sequence of one-character strings, so     *)
(* that parsing and formatting are computed character by character.        *)
(* localStorage.getItem gives Null for a key that is absent.               *)
(***************************************************************************)
Null == <<"null">>

Digits == <<"0", "1", "2", "3", "4", "5", "6", "7", "8", "9">>

IsDigit(c) == \E i \in 1..10 : Digits[i] = c

DigitVal(c) == (CHOOSE i \in 1..10 : Digits[i] = c) - 1

DigitChar(v) == Digits[v + 1]

IsWhiteSpace(c) == c = " "

\* a JavaScript string is truthy unless it is empty (null is falsy too)
Truthy(t) == t # Null /\ t # <<>>

\* the first index at or after i that holds no white space / no digit
SkipWhiteSpace(t, i) ==
    SetMin({j \in i..(Len(t) + 1) : j > Len(t) \/ ~IsWhiteSpace(t[j])})

SkipDigits(t, i) ==
    SetMin({j \in i..(Len(t) + 1) : j > Len(t) \/ ~IsDigit(t[j])})

\* the big natural written by a digit string, four digits to the limb
BigOfDigits(ds) ==
    LET d(p) == IF p >= 1 THEN DigitVal(ds[p]) ELSE 0
        l(i) == Len(ds) - 4 * (i - 1)
    IN  Trim([i \in 1..((Len(ds) + 3) \div 4) |->
                 d(l(i)) + 10 * d(l(i) - 1) + 100 * d(l(i) - 2) + 1000 * d(l(i) - 3)])

\* the natural written by a digit string of at most eight digits
IntOfDigits(ds) == Limb(BigOfDigits(ds), 1) + Base * Limb(BigOfDigits(ds), 2)

\* parseFloat(t): white space, then the longest prefix that is a decimal
\* literal [+-] digits [. digits] [e [+-] digits]; NaN when there is none
ExponentDigits(t, x0, x1) == IF x1 > x0 THEN IntOfDigits(SubSeq(t, x0, x1 - 1)) ELSE 0

ExponentSigned(t, i) ==
    IF i <= Len(t) /\ t[i] = "-" THEN 0 - ExponentDigits(t, i + 1, SkipDigits(t, i + 1))
    ELSE IF i <= Len(t) /\ t[i] = "+" THEN ExponentDigits(t, i + 1, SkipDigits(t, i + 1))
    ELSE ExponentDigits(t, i, SkipDigits(t, i))

ExponentAt(t, i) == IF i <= Len(t) /\ t[i] \in {"e", "E"} THEN ExponentSigned(t, i + 1) ELSE 0

\* the literal with integer digits t[i0..i1-1] and fraction digits t[f0..f1-1]
ParseExponent(t, neg, i0, i1, f0, f1) ==
    IF i1 = i0 /\ f1 = f0 THEN NaN
    ELSE DecimalToDouble(neg, BigOfDigits(SubSeq(t, i0, i1 - 1) \o SubSeq(t, f0, f1 - 1)),
                         ExponentAt(t, f1) - (f1 - f0))

ParseFraction(t, neg, i0, i1) ==
    IF i1 <= Len(t) /\ t[i1] = "."
    THEN ParseExponent(t, neg, i0, i1, i1 + 1, SkipDigits(t, i1 + 1))
    ELSE ParseExponent(t, neg, i0, i1, i1, i1)

ParseSign(t, s) ==
    IF s <= Len(t) /\ t[s] \in {"+", "-"}
    THEN ParseFraction(t, t[s] = "-", s + 1, SkipDigits(t, s + 1))
    ELSE ParseFraction(t, FALSE, s, SkipDigits(t, s))

parseFloat(t) == ParseSign(t, SkipWhiteSpace(t, 1))

(***************************************************************************)
(* The index is a Number too, but an integer or NaN in every state the     *)
(* model reaches: it is kept as a TLA+ integer, with IndexNaN standing     *)
(* for NaN; the comparisons below are JavaScript's (false on NaN).         *)
(***************************************************************************)
IndexNaN == 0 - 1000

ILt(a, b) == a # IndexNaN /\ b # IndexNaN /\ a < b
IGe(a, b) == a # IndexNaN /\ b # IndexNaN /\ a >= b
IAdd(a, b) == IF a = IndexNaN \/ b = IndexNaN THEN IndexNaN ELSE a + b

\* parseInt(t, 10): white space, an optional sign, then the longest run of
\* digits; NaN when there is no digit
ParseIntDigits(t, neg, i0, i1) ==
    IF i1 = i0 THEN IndexNaN
    ELSE IF neg THEN 0 - IntOfDigits(SubSeq(t, i0, i1 - 1))
    ELSE IntOfDigits(SubSeq(t, i0, i1 - 1))

ParseIntSign(t, s) ==
    IF s <= Len(t) /\ t[s] \in {"+", "-"}
    THEN ParseIntDigits(t, t[s] = "-", s + 1, SkipDigits(t, s + 1))
    ELSE ParseIntDigits(t, FALSE, s, SkipDigits(t, s))

parseInt(t) == ParseIntSign(t, SkipWhiteSpace(t, 1))

\* the decimal digits of a big natural, most significant first (none for 0)
BigDigits(a) ==
    LET all == [p \in 1..(4 * Len(a)) |->
                   DigitChar((a[Len(a) - ((p - 1) \div 4)] \div Pow(10, 3 - ((p - 1) % 4))) % 10)]
        nz  == {p \in 1..(4 * Len(a)) : all[p] # "0"}
    IN  IF nz = {} THEN <<>> ELSE SubSeq(all, SetMin(nz), 4 * Len(a))

NatDigits(n) == IF n = 0 THEN <<"0">> ELSE BigDigits(Big(n))

StripTrailingZeros(t) ==
    LET nz == {p \in 1..Len(t) : t[p] # "0"}
    IN  IF nz = {} THEN <<>> ELSE SubSeq(t, 1, SetMax(nz))

Zeros(n) == [i \in 1..n |-> "0"]

\* Number.prototype.toString() of an integer-valued index
IndexToString(i) ==
    IF i = IndexNaN THEN <<"N", "a", "N">>
    ELSE IF i < 0 THEN <<"-">> \o NatDigits(0 - i)
    ELSE NatDigits(i)

(***************************************************************************)
(* Number.prototype.toString() (ECMAScript Number::toString, radix 10):    *)
(* the shortest digit string s, of k digits, and the exponent n with       *)
(* s * 10^(n-k) rounding to the value, laid out by the size of n.          *)
(* Seventeen significant digits always identify a binary64 value.          *)
(***************************************************************************)
MaxSignificant == 17

\* the leading decimal digits of the positive value v: <<ds, n0>> with
\* 0.ds * 10^n0 <= v, exact when v is an integer, else 18 digits or more
\* (log10 2 < 0.302)
DigitsScaled(ds, p) == <<ds, Len(ds) - p>>

LeadingScaled(v, p) == DigitsScaled(BigDigits(DivPow2(MulPow10(v.m, p), 0 - v.e, FALSE)[1]), p)

LeadingDigits(v) ==
    IF v.e >= 0
    THEN DigitsScaled(BigDigits(MulPow2(v.m, v.e)), 0)
    ELSE LeadingScaled(v, MaxOf(0, 20 - Len(BigDigits(v.m)) + ((0 - v.e) * 302) \div 1000))

\* the shortest decimal <<d, x>>, d * 10^x reading back as the positive
\* value v: the least number k of leading digits that does, rounded down
\* or up in the last place, the nearer of the two when both do
RoundedDown(ds, k) == BigOfDigits(SubSeq(ds, 1, k))

RoundedUp(ds, k) == BigAdd(RoundedDown(ds, k), <<1>>)

ReadsBack(v, d, x) == DecimalToDouble(FALSE, d, x) = v

ShortestLen(v, ds, n0) ==
    SetMin({k \in 1..MinOf(MaxSignificant, Len(ds)) :
                \/ ReadsBack(v, RoundedDown(ds, k), n0 - k)
                \/ ReadsBack(v, RoundedUp(ds, k), n0 - k)})

ShortestAt(v, ds, n0, k) ==
    IF /\ ReadsBack(v, RoundedUp(ds, k), n0 - k)
       /\ \/ k < Len(ds) /\ DigitVal(ds[k + 1]) >= 5
          \/ ~ReadsBack(v, RoundedDown(ds, k), n0 - k)
    THEN <<RoundedUp(ds, k), n0 - k>>
    ELSE <<RoundedDown(ds, k), n0 - k>>

ShortestOf(v, ld) == ShortestAt(v, ld[1], ld[2], ShortestLen(v, ld[1], ld[2]))

Shortest(v) == ShortestOf(v, LeadingDigits(v))

\* the layout of digit string s (k digits, no trailing zero) with exponent n
LayOut(s, n) ==
    LET k == Len(s)
    IN  IF k <= n /\ n <= 21 THEN s \o Zeros(n - k)
        ELSE IF 0 < n /\ n <= 21 THEN SubSeq(s, 1, n) \o <<".">> \o SubSeq(s, n + 1, k)
        ELSE IF 0 - 6 < n /\ n <= 0 THEN <<"0", ".">> \o Zeros(0 - n) \o s
        ELSE LET ex == (IF n - 1 < 0 THEN <<"e", "-">> \o NatDigits(1 - n)
                                     ELSE <<"e", "+">> \o NatDigits(n - 1))
             IN  IF k = 1 THEN s \o ex
                 ELSE <<s[1], ".">> \o SubSeq(s, 2, k) \o ex

LayOutDigits(all, x) == LayOut(StripTrailingZeros(all), Len(all) + x)

LayOutShortest(sh) == LayOutDigits(BigDigits(sh[1]), sh[2])

NumberToString(v) ==
    IF v.nan THEN <<"N", "a", "N">>
    ELSE IF v.m = <<>> THEN <<"0">>
    ELSE (IF v.neg THEN <<"-">> ELSE <<>>) \o LayOutShortest(Shortest([v EXCEPT !.neg = FALSE]))

(***************************************************************************)
(* PART 4.  The player.                                                    *)
(***************************************************************************)
VARIABLES
    phase,                \* "boot": the page is loaded and init() has not run; "run" after
    playlist,             \* VideoPlayer.playlist
    currentIndex,         \* VideoPlayer.currentIndex (0-based, as in the code)
    currentSubtitles,     \* VideoPlayer.currentSubtitles
    volumeLevel,          \* VideoPlayer.volumeLevel
    localStorage,         \* the two persisted entries, as text
    videoElement,         \* the primary <video>: src, currentTime, volume, paused, duration
    previewVideoElement,  \* the preview <video>: src, currentTime, paused
    tasks,                \* the suspended setupVideo() calls, oldest first
    now,                  \* the clock Date.now() reads
    blobs,                \* the number of object URLs created so far
    lastOp,               \* history: the handler that ran last and what it issued
    started,              \* history: the position init() left
    budget,               \* what is left of the bounds on the run
    surface,              \* the canvas: "blank" as created, "clear" after clearRect(),
                          \* "frame" once something is drawn on it
    loop,                 \* the render loop: "off", "on" (a tick is requested), "aborted"
    mousePos,             \* VideoPlayer.mousePos
    isMouseOverProgressBar, \* VideoPlayer.isMouseOverProgressBar
    promises,             \* the pending play() promises that no setupVideo() call awaits
    unhandled,            \* the rejected play() promises that nothing handled
    effectSelect,         \* the value of the effect <select>
    videoFrame,           \* the picture the primary element shows, as RGBA bytes
    imageData,            \* the buffer applyVideoEffect() last put back on the canvas
    subtitle              \* the entry drawSubtitles() found at the last tick

vars == <<phase, playlist, currentIndex, currentSubtitles, volumeLevel, localStorage,
          videoElement, previewVideoElement, tasks, now, blobs, lastOp, started, budget,
          surface, loop, mousePos, isMouseOverProgressBar, promises, unhandled,
          effectSelect, videoFrame, imageData, subtitle>>

\* the picture on the canvas, by its pixels and its caption
picture == <<effectSelect, videoFrame, imageData, subtitle>>

\* the state of the canvas, of the pointer and of the free-standing promises
rendering == <<surface, loop, mousePos, isMouseOverProgressBar, promises, unhandled>>

------------------------------------------------------------------------------
\* Bounds of the model
MaxTasks == 2           \* setupVideo() calls suspended at the same time
MaxLoads == 4           \* selections, Previous and Next clicks and 'ended' events in a run
MaxRemoves == 4         \* delete clicks in a run
MaxAddEvents == 1       \* file-picker or drop events in a run
MaxFilesPerEvent == 2   \* files in one such event
MaxMoves == 1           \* effective move-up / move-down clicks in a run
MaxCycles == 7          \* volume clicks in a run
MaxReloads == 1         \* page reloads in a run
MaxClock == 1           \* the last reading of the clock
Few == 1                \* operations of a kind in a run that explores another kind
MaxPending == 1         \* pending play() promises of a kind (togglePlay, preview)

------------------------------------------------------------------------------
\* The environment of the page
NoUrl == "undefined"    \* an absent subtitleUrl

Undefined == [id |-> <<>>, title |-> <<>>, src |-> "undefined", subtitleUrl |-> NoUrl]

\* the undefined that find() returns
NoSubtitle == [start |-> 0 - 1, end |-> 0 - 1, text |-> "undefined"]

\* the static playlist of buildInitialPlaylist()
InitialPlaylist ==
    << [id |-> <<"m", "o", "v", "i", "e", "1">>, title |-> <<"M", "o", "v", "i", "e", " ", "1">>,
        src |-> "media/movie1.mp4", subtitleUrl |-> "subtitles/movie1_subtitles.json"],
       [id |-> <<"m", "o", "v", "i", "e", "2">>, title |-> <<"M", "o", "v", "i", "e", " ", "2">>,
        src |-> "media/movie2.mp4", subtitleUrl |-> "subtitles/movie2_subtitles.json"],
       [id |-> <<"m", "o", "v", "i", "e", "3">>, title |-> <<"M", "o", "v", "i", "e", " ", "3">>,
        src |-> "media/movie3.mp4", subtitleUrl |-> NoUrl],
       [id |-> <<"m", "o", "v", "i", "e", "4">>, title |-> <<"M", "o", "v", "i", "e", " ", "4">>,
        src |-> "media/movie4.mp4", subtitleUrl |-> NoUrl] >>

\* what the server holds at a caption locator (types.ts, VideoSubtitle), the times
\* in milliseconds as the positions of the elements are
SubtitleFile(url) ==
    IF url = "subtitles/movie1_subtitles.json"
    THEN << [start |-> 0, end |-> 5000, text |-> "one"],
            [start |-> 7000, end |-> 9000, text |-> "two"] >>
    ELSE << [start |-> 1000, end |-> 4000, text |-> "uno"] >>

\* the names of the files the user can pick or drop
FileNames == { <<"c", "l", "i", "p">> }

\* the locators URL.createObjectURL() hands out, one per call
ObjectUrls == << "blob:1", "blob:2", "blob:3", "blob:4" >>

\* the length of every media file, in milliseconds
MediaDuration == 100 * 1000
DurationNaN == 0 - 1    \* HTMLMediaElement.duration before the metadata is known

\* what the two persisted entries can hold when the page is opened
InitialStores ==
    { [volume |-> <<"0">>, index |-> <<"0">>],
      [volume |-> <<"0", ".", "5">>, index |-> <<"2">>],
      [volume |-> <<"5">>, index |-> <<"7">>],
      [volume |-> <<"-", "0", ".", "5">>, index |-> <<"-", "1">>],
      [volume |-> <<"a", "b", "c">>, index |-> <<"a", "b", "c">>],
      [volume |-> <<>>, index |-> <<>>] }

------------------------------------------------------------------------------
\* The fields as the constructor leaves them
One == FromInt(1)
Zero == FromInt(0)
Step == parseFloat(<<"0", ".", "2">>)      \* the literal 0.2 of cycleVolume()

NewVideoElement ==
    [src |-> "", currentTime |-> 0, volume |-> One, paused |-> TRUE, duration |-> DurationNaN]

NewPreviewVideoElement == [src |-> "", currentTime |-> 0, paused |-> TRUE]

NoPrevious == [valid |-> FALSE, volumeLevel |-> One, currentIndex |-> 0]

NotStarted == [done |-> FALSE, volumeLevel |-> One, currentIndex |-> 0]

\* the record of a handler: its name, its argument, the commands it issued to the
\* primary element (to the preview element: "preview. ...", to the console:
\* "console.warn", to the canvas: "getImageData", "putImageData") and the exception
\* it ended with
Op(name, arg, cmds, err) ==
    [op |-> name, arg |-> arg, cmds |-> cmds, err |-> err, prev |-> NoPrevious]

NoPromises == [toggle |-> 0, preview |-> 0]

\* The runs explored: what the storage holds when the page is first opened, and
\* how many operations of each kind the run has
NoBudget ==
    [loads |-> 0, removes |-> 0, adds |-> 0, moves |-> 0, cycles |-> 0, reloads |-> 0,
     tasks |-> 1, media |-> FALSE, render |-> FALSE, effects |-> FALSE, pointer |-> FALSE]

Transport == [NoBudget EXCEPT !.loads = MaxLoads, !.media = TRUE]
Overlap == [NoBudget EXCEPT !.loads = MaxTasks, !.tasks = MaxTasks]
Emptying == [NoBudget EXCEPT !.removes = MaxRemoves, !.loads = Few + 1, !.adds = MaxAddEvents]
Emptied == [NoBudget EXCEPT !.removes = MaxRemoves, !.loads = Few, !.cycles = Few,
                            !.media = TRUE]
Cleared == [NoBudget EXCEPT !.removes = MaxRemoves, !.render = TRUE]
Hover == [NoBudget EXCEPT !.media = TRUE, !.render = TRUE]
Reorder == [NoBudget EXCEPT !.moves = MaxMoves, !.removes = Few, !.loads = Few]
Session == [NoBudget EXCEPT !.reloads = MaxReloads, !.loads = Few, !.removes = Few,
                            !.adds = MaxAddEvents, !.cycles = Few]
Volume == [NoBudget EXCEPT !.cycles = MaxCycles, !.reloads = MaxReloads, !.loads = Few]
Damaged == [NoBudget EXCEPT !.removes = Few, !.loads = Few]

Fresh == [volume |-> Null, index |-> Null]

InitialRuns ==
    ({Fresh} \X {Transport, Overlap, Emptying, Emptied, Cleared, Hover, Reorder, Session,
                 Volume})
        \cup (InitialStores \X {Volume, Damaged})

Init ==
    /\ phase = "boot"
    /\ playlist = <<>>
    /\ currentIndex = 0
    /\ currentSubtitles = <<>>
    /\ volumeLevel = One
    /\ \E run \in InitialRuns : localStorage = run[1] /\ budget = run[2]
    /\ videoElement = NewVideoElement
    /\ previewVideoElement = NewPreviewVideoElement
    /\ tasks = <<>>
    /\ now = 0
    /\ blobs = 0
    /\ lastOp = Op("none", 0 - 1, {}, "none")
    /\ started = NotStarted
    /\ surface = "blank"
    /\ loop = "off"
    /\ mousePos = [x |-> 0, y |-> 0]
    /\ isMouseOverProgressBar = FALSE
    /\ promises = NoPromises
    /\ unhandled = {}
    /\ effectSelect = "none"
    /\ videoFrame = <<>>
    /\ imageData = <<>>
    /\ subtitle = NoSubtitle

------------------------------------------------------------------------------
\* this.playlist[i]
Item(pl, i) == IF i # IndexNaN /\ 0 <= i /\ i < Len(pl) THEN pl[i + 1] ELSE Undefined

\* HTMLMediaElement.volume accepts the values of [0, 1] and throws on the others
ValidVolume(v) == FGe(v, Zero) /\ FLe(v, One)

\* every volume a run can reach, with its text
RECURSIVE VolumesFrom(_, _)
VolumesFrom(v, n) ==
    IF n = 0 THEN {v}
    ELSE {v} \cup VolumesFrom(IF FGt(FAdd(v, Step), One) THEN Zero ELSE FAdd(v, Step), n - 1)

Volumes ==
    UNION {VolumesFrom(v, MaxCycles + 1) :
              v \in {One} \cup {parseFloat(st.volume) :
                                    st \in {t \in InitialStores : Truthy(t.volume)}}}

VolumeTexts == {<<v, NumberToString(v)>> : v \in Volumes}

\* volumeLevel.toString()
TextIn(table, v) ==
    IF \E p \in table : p[1] = v THEN (CHOOSE p \in table : p[1] = v)[2] ELSE NumberToString(v)

VolumeToString(v) == TextIn(VolumeTexts, v)

\* volumeLevel += 0.2, and the wrap of cycleVolume()
NextVolume(v) == IF FGt(FAdd(v, Step), One) THEN Zero ELSE FAdd(v, Step)

VolumeSteps == {<<p[1], NextVolume(p[1])>> : p \in VolumeTexts}

StepIn(table, v) ==
    IF \E p \in table : p[1] = v THEN (CHOOSE p \in table : p[1] = v)[2] ELSE NextVolume(v)

CycleStep(v) == StepIn(VolumeSteps, v)

\* saveSettings(): the two entries it writes
saveSettings(vol, idx) == [volume |-> VolumeToString(vol), index |-> IndexToString(idx)]

\* loadSettings() without its tests of the values read: what is read is parsed even
\* when the key is absent
loadSettingsUnguarded(store, vol, idx) ==
    [volumeLevel  |-> parseFloat(store.volume), currentIndex |-> parseInt(store.index)]

\* loadSettings(): the fields after it
loadSettings(store, vol, idx) ==
    [volumeLevel  |-> IF Truthy(store.volume) THEN parseFloat(store.volume) ELSE vol,
     currentIndex |-> IF Truthy(store.index) THEN parseInt(store.index) ELSE idx]

\* enforceCurrentIndex()
enforceCurrentIndex(idx, len) == IF ILt(idx, 0) \/ IGe(idx, len) THEN 0 ELSE idx

\* setupVideo(item) up to its first await.  allowed: the browser lets play() start.
setupVideo(item, vol, video, preview, ts, allowed) ==
    IF item = Undefined
    THEN [video |-> video, preview |-> preview, tasks |-> ts, cmds |-> {}, err |-> "TypeError"]
    ELSE LET loaded == [video EXCEPT !.src = item.src, !.paused = TRUE, !.currentTime = 0,
                                     !.duration = DurationNaN]
         IN  IF ~ValidVolume(vol)
             THEN [video |-> loaded, preview |-> preview, tasks |-> ts,
                   cmds |-> {"src", "currentTime", "volume"}, err |-> "volume"]
             ELSE [video   |-> [loaded EXCEPT !.volume = vol, !.paused = ~allowed],
                   preview |-> [src |-> item.src, currentTime |-> 0, paused |-> TRUE],
                   tasks   |-> Append(ts, [url |-> item.subtitleUrl, pc |-> "play",
                                           allowed |-> allowed]),
                   cmds    |-> {"src", "currentTime", "volume", "play"},
                   err     |-> "none"]

------------------------------------------------------------------------------
\* init(): loadSettings, buildInitialPlaylist, enforceCurrentIndex, setupVideo,
\* startRenderLoop.  setupVideo() is async: what it throws rejects its promise and
\* init() goes on.
\* The page is loaded without a gesture of the user, so the browser may refuse play().
InitPlayer ==
    /\ phase = "boot"
    /\ \E allowed \in BOOLEAN, loaded \in {loadSettings(localStorage, volumeLevel, currentIndex)} :
         \E idx \in {enforceCurrentIndex(loaded.currentIndex, Len(InitialPlaylist))} :
           \E r \in {setupVideo(Item(InitialPlaylist, idx), loaded.volumeLevel, videoElement,
                                 previewVideoElement, tasks, allowed)} :
             /\ phase' = "run"
             /\ volumeLevel' = loaded.volumeLevel
             /\ playlist' = InitialPlaylist
             /\ currentIndex' = idx
             /\ videoElement' = r.video
             /\ previewVideoElement' = r.preview
             /\ tasks' = r.tasks
             /\ lastOp' = [Op("init", 0 - 1, r.cmds, r.err) EXCEPT !.prev = lastOp.prev]
             /\ started' = [done |-> TRUE, volumeLevel |-> loaded.volumeLevel,
                            currentIndex |-> idx]
             /\ loop' = "on"
    /\ UNCHANGED <<currentSubtitles, localStorage, now, blobs, budget>>
    /\ UNCHANGED <<surface, mousePos, isMouseOverProgressBar, promises, unhandled>>
    /\ UNCHANGED picture

\* the click handler of a title (createTitleElement)
SelectByIndex(index) ==
    /\ phase = "run"
    /\ index \in 0..(Len(playlist) - 1)
    /\ budget.loads > 0
    /\ Len(tasks) < budget.tasks
    /\ \E r \in {setupVideo(Item(playlist, index), volumeLevel, videoElement,
                              previewVideoElement, tasks, TRUE)} :
           /\ currentIndex' = index
           /\ videoElement' = r.video
           /\ previewVideoElement' = r.preview
           /\ tasks' = r.tasks
           /\ localStorage' = saveSettings(volumeLevel, index)
           /\ lastOp' = Op("select", index, r.cmds, r.err)
    /\ budget' = [budget EXCEPT !.loads = @ - 1]
    /\ UNCHANGED <<phase, playlist, currentSubtitles, volumeLevel, now, blobs, started>>
    /\ UNCHANGED rendering
    /\ UNCHANGED picture

Swap(pl, a, b) == [pl EXCEPT ![a] = pl[b], ![b] = pl[a]]

\* the click handler of an up button, were currentIndex made to follow the item
\* that plays
MoveUpFollowing(index) ==
    /\ phase = "run"
    /\ index \in 0..(Len(playlist) - 1)
    /\ IF index > 0
       THEN /\ budget.moves > 0
            /\ playlist' = Swap(playlist, index, index + 1)
            /\ currentIndex' = IF currentIndex = index THEN index - 1
                               ELSE IF currentIndex = index - 1 THEN index ELSE currentIndex
            /\ budget' = [budget EXCEPT !.moves = @ - 1]
       ELSE UNCHANGED <<playlist, budget, currentIndex>>
    /\ lastOp' = Op("moveUp", index, {}, "none")
    /\ UNCHANGED <<phase, currentSubtitles, volumeLevel, localStorage,
                   videoElement, previewVideoElement, tasks, now, blobs, started>>
    /\ UNCHANGED rendering
    /\ UNCHANGED picture

\* the click handler of an up button (createMoveUpButton)
MoveUp(index) ==
    /\ phase = "run"
    /\ index \in 0..(Len(playlist) - 1)
    /\ IF index > 0
       THEN /\ budget.moves > 0
            /\ playlist' = Swap(playlist, index, index + 1)
            /\ budget' = [budget EXCEPT !.moves = @ - 1]
       ELSE UNCHANGED <<playlist, budget>>
    /\ lastOp' = Op("moveUp", index, {}, "none")
    /\ UNCHANGED <<phase, currentIndex, currentSubtitles, volumeLevel, localStorage,
                   videoElement, previewVideoElement, tasks, now, blobs, started>>
    /\ UNCHANGED rendering
    /\ UNCHANGED picture

\* the click handler of a down button (createMoveDownButton)
MoveDown(index) ==
    /\ phase = "run"
    /\ index \in 0..(Len(playlist) - 1)
    /\ IF index < Len(playlist) - 1
       THEN /\ budget.moves > 0
            /\ playlist' = Swap(playlist, index + 1, index + 2)
            /\ budget' = [budget EXCEPT !.moves = @ - 1]
       ELSE UNCHANGED <<playlist, budget>>
    /\ lastOp' = Op("moveDown", index, {}, "none")
    /\ UNCHANGED <<phase, currentIndex, currentSubtitles, volumeLevel, localStorage,
                   videoElement, previewVideoElement, tasks, now, blobs, started>>
    /\ UNCHANGED rendering
    /\ UNCHANGED picture

Splice(pl, index) == SubSeq(pl, 1, index) \o SubSeq(pl, index + 2, Len(pl))

\* the click handler of a delete button (createDeleteButton)
Remove(index) ==
    /\ phase = "run"
    /\ index \in 0..(Len(playlist) - 1)
    /\ budget.removes > 0
    /\ Len(tasks) < budget.tasks
    /\ \E pl \in {Splice(playlist, index)} :
         \E i1 \in {IF IGe(currentIndex, Len(pl)) THEN Len(pl) - 1 ELSE currentIndex} :
          \E i2 \in {IF ILt(i1, 0) THEN 0 ELSE i1} :
           \E r \in {setupVideo(Item(pl, i2), volumeLevel, videoElement, previewVideoElement,
                                 tasks, TRUE)} :
           /\ playlist' = pl
           /\ currentIndex' = i2
           /\ IF Len(pl) > 0
              THEN /\ videoElement' = r.video
                   /\ previewVideoElement' = r.preview
                   /\ tasks' = r.tasks
                   /\ lastOp' = Op("remove", index, r.cmds, r.err)
                   /\ UNCHANGED surface
              ELSE /\ videoElement' = [videoElement EXCEPT !.paused = TRUE]
                   /\ UNCHANGED <<previewVideoElement, tasks>>
                   /\ lastOp' = Op("remove", index, {"pause"}, "none")
                   /\ surface' = "clear"
    /\ budget' = [budget EXCEPT !.removes = @ - 1]
    /\ UNCHANGED <<phase, currentSubtitles, volumeLevel, localStorage, now, blobs, started>>
    /\ UNCHANGED <<loop, mousePos, isMouseOverProgressBar, promises, unhandled>>
    /\ UNCHANGED picture

\* addFileToPlaylist(file), the clock reading stamp
NewItem(name, stamp, n) ==
    [id |-> name \o IndexToString(stamp), title |-> name, src |-> ObjectUrls[n],
     subtitleUrl |-> NoUrl]

\* handleFileInput / handleDrop with the files named by names; the clock reads
\* stamps[k] when file k is added
\* the change and drop handlers, were the new items put in front of the playlist
AddFilesFront(names, stamps) ==
    /\ phase = "run"
    /\ budget.adds > 0
    /\ Len(names) = Len(stamps)
    /\ blobs + Len(names) <= Len(ObjectUrls)
    /\ \A k \in 1..Len(stamps) : stamps[k] >= (IF k = 1 THEN now ELSE stamps[k - 1])
    /\ playlist' = [k \in 1..Len(names) |-> NewItem(names[k], stamps[k], blobs + k)] \o playlist
    /\ blobs' = blobs + Len(names)
    /\ now' = stamps[Len(stamps)]
    /\ budget' = [budget EXCEPT !.adds = @ - 1]
    /\ lastOp' = Op("addFiles", Len(names), {}, "none")
    /\ UNCHANGED <<phase, currentIndex, currentSubtitles, volumeLevel, localStorage,
                   videoElement, previewVideoElement, tasks, started>>
    /\ UNCHANGED rendering
    /\ UNCHANGED picture

AddFiles(names, stamps) ==
    /\ phase = "run"
    /\ budget.adds > 0
    /\ Len(names) = Len(stamps)
    /\ blobs + Len(names) <= Len(ObjectUrls)
    /\ \A k \in 1..Len(stamps) : stamps[k] >= (IF k = 1 THEN now ELSE stamps[k - 1])
    /\ playlist' = playlist \o [k \in 1..Len(names) |-> NewItem(names[k], stamps[k], blobs + k)]
    /\ blobs' = blobs + Len(names)
    /\ now' = stamps[Len(stamps)]
    /\ budget' = [budget EXCEPT !.adds = @ - 1]
    /\ lastOp' = Op("addFiles", Len(names), {}, "none")
    /\ UNCHANGED <<phase, currentIndex, currentSubtitles, volumeLevel, localStorage,
                   videoElement, previewVideoElement, tasks, started>>
    /\ UNCHANGED rendering
    /\ UNCHANGED picture

------------------------------------------------------------------------------
\* The control regions of the canvas
btnPrevArea == [x |-> 20, y |-> 400, w |-> 30, h |-> 30]
\* the play button, were it to begin on the right edge of the previous button
btnPlayAreaTouching == [x |-> 50, y |-> 400, w |-> 30, h |-> 30]
btnPlayArea == [x |-> 60, y |-> 400, w |-> 30, h |-> 30]
btnNextArea == [x |-> 100, y |-> 400, w |-> 30, h |-> 30]
volumeArea == [x |-> 140, y |-> 400, w |-> 80, h |-> 30]
progressBar == [x |-> 240, y |-> 410, w |-> 500, h |-> 10]

\* isPointInRect(), were the edges left out
isPointInRectStrict(px, py, rect) ==
    LET inXRange == px > rect.x /\ px < rect.x + rect.w
        inYRange == py > rect.y /\ py < rect.y + rect.h
    IN  inXRange /\ inYRange

\* isPointInRect(px, py, rect)
isPointInRect(px, py, rect) ==
    LET inXRange == px >= rect.x /\ px <= rect.x + rect.w
        inYRange == py >= rect.y /\ py <= rect.y + rect.h
    IN  inXRange /\ inYRange

\* the points of the canvas the user clicks
ClickPoints ==
    { <<25, 410>>, <<70, 410>>, <<110, 410>>, <<150, 410>>, <<240, 415>>, <<490, 415>>,
      <<400, 200>> }

\* prevVideo() and nextVideo() after the index is moved to idx
LoadAt(name, idx) ==
    /\ budget.loads > 0
    /\ Len(tasks) < budget.tasks
    /\ \E r \in {setupVideo(Item(playlist, idx), volumeLevel,
                              IF name = "ended" THEN [videoElement EXCEPT !.paused = TRUE]
                                                ELSE videoElement,
                              previewVideoElement, tasks, TRUE)} :
           /\ currentIndex' = idx
           /\ localStorage' = saveSettings(volumeLevel, idx)
           /\ videoElement' = r.video
           /\ previewVideoElement' = r.preview
           /\ tasks' = r.tasks
           /\ lastOp' = Op(name, 0 - 1, r.cmds, r.err)
    /\ budget' = [budget EXCEPT !.loads = @ - 1]
    /\ UNCHANGED <<phase, playlist, currentSubtitles, volumeLevel, now, blobs, started>>
    /\ UNCHANGED rendering
    /\ UNCHANGED picture

prevVideo ==
    \E i1 \in {IAdd(currentIndex, 0 - 1)} :
        LoadAt("prevVideo", IF ILt(i1, 0) THEN Len(playlist) - 1 ELSE i1)

nextVideo(name) ==
    \E i1 \in {IAdd(currentIndex, 1)} :
        LoadAt(name, IF IGe(i1, Len(playlist)) THEN 0 ELSE i1)

\* togglePlay() without its test of the paused flag: play() whatever the flag is
togglePlayAlways ==
    /\ budget.media
    /\ promises.toggle < MaxPending
    /\ videoElement' = [videoElement EXCEPT !.paused = FALSE]
    /\ promises' = [promises EXCEPT !.toggle = @ + 1]
    /\ lastOp' = Op("togglePlay", 0 - 1, {"play"}, "none")
    /\ UNCHANGED <<phase, playlist, currentIndex, currentSubtitles, volumeLevel, localStorage,
                   previewVideoElement, tasks, now, blobs, budget, started>>
    /\ UNCHANGED <<surface, loop, mousePos, isMouseOverProgressBar, unhandled>>
    /\ UNCHANGED picture

\* togglePlay(): the promise of play() is dropped ('void'), nothing awaits it
togglePlay ==
    /\ budget.media
    /\ IF videoElement.paused
       THEN /\ promises.toggle < MaxPending
            /\ videoElement' = [videoElement EXCEPT !.paused = FALSE]
            /\ promises' = [promises EXCEPT !.toggle = @ + 1]
            /\ lastOp' = Op("togglePlay", 0 - 1, {"play"}, "none")
       ELSE /\ videoElement' = [videoElement EXCEPT !.paused = TRUE]
            /\ UNCHANGED promises
            /\ lastOp' = Op("togglePlay", 0 - 1, {"pause"}, "none")
    /\ UNCHANGED <<phase, playlist, currentIndex, currentSubtitles, volumeLevel, localStorage,
                   previewVideoElement, tasks, now, blobs, budget, started>>
    /\ UNCHANGED <<surface, loop, mousePos, isMouseOverProgressBar, unhandled>>
    /\ UNCHANGED picture

cycleVolume ==
    /\ budget.cycles > 0
    /\ \E vol \in {CycleStep(volumeLevel)} :
           /\ volumeLevel' = vol
           /\ IF ValidVolume(vol)
              THEN /\ videoElement' = [videoElement EXCEPT !.volume = vol]
                   /\ localStorage' = saveSettings(vol, currentIndex)
                   /\ lastOp' = Op("cycleVolume", 0 - 1, {"volume"}, "none")
              ELSE /\ UNCHANGED <<videoElement, localStorage>>
                   /\ lastOp' = Op("cycleVolume", 0 - 1, {"volume"}, "volume")
    /\ budget' = [budget EXCEPT !.cycles = @ - 1]
    /\ UNCHANGED <<phase, playlist, currentIndex, currentSubtitles, previewVideoElement, tasks,
                   now, blobs, started>>
    /\ UNCHANGED rendering
    /\ UNCHANGED picture

\* the progress-bar branch of handleCanvasClick, were the position written to both
\* elements
ScrubShared(x) ==
    /\ budget.media
    /\ IF videoElement.duration = DurationNaN
       THEN /\ UNCHANGED <<videoElement, previewVideoElement>>
            /\ lastOp' = Op("scrub", x, {"currentTime"}, "currentTime")
       ELSE /\ videoElement' = [videoElement EXCEPT
                                   !.currentTime = ((x - progressBar.x) * videoElement.duration)
                                                       \div progressBar.w]
            /\ previewVideoElement' = [previewVideoElement EXCEPT
                                   !.currentTime = ((x - progressBar.x) * videoElement.duration)
                                                       \div progressBar.w]
            /\ lastOp' = Op("scrub", x, {"currentTime"}, "none")
    /\ UNCHANGED <<phase, playlist, currentIndex, currentSubtitles, volumeLevel, localStorage,
                   tasks, now, blobs, budget, started>>
    /\ UNCHANGED rendering
    /\ UNCHANGED picture

\* the progress-bar branch of handleCanvasClick
Scrub(x) ==
    /\ budget.media
    /\ IF videoElement.duration = DurationNaN
       THEN /\ UNCHANGED videoElement
            /\ lastOp' = Op("scrub", x, {"currentTime"}, "currentTime")
       ELSE /\ videoElement' = [videoElement EXCEPT
                                   !.currentTime = ((x - progressBar.x) * videoElement.duration)
                                                       \div progressBar.w]
            /\ lastOp' = Op("scrub", x, {"currentTime"}, "none")
    /\ UNCHANGED <<phase, playlist, currentIndex, currentSubtitles, volumeLevel, localStorage,
                   previewVideoElement, tasks, now, blobs, budget, started>>
    /\ UNCHANGED rendering
    /\ UNCHANGED picture

\* handleCanvasClick(event), were the regions of the two skip buttons exchanged
handleCanvasClickSwapped(x, y) ==
    /\ phase = "run"
    /\ IF isPointInRect(x, y, btnNextArea) THEN prevVideo
       ELSE IF isPointInRect(x, y, btnPlayArea) THEN togglePlay
       ELSE IF isPointInRect(x, y, btnPrevArea) THEN nextVideo("nextVideo")
       ELSE IF isPointInRect(x, y, volumeArea) THEN cycleVolume
       ELSE IF isPointInRect(x, y, progressBar) THEN Scrub(x)
       ELSE /\ lastOp' = Op("click", x, {}, "none")
            /\ UNCHANGED <<phase, playlist, currentIndex, currentSubtitles, volumeLevel,
                           localStorage, videoElement, previewVideoElement, tasks, now, blobs,
                           budget, started>>
            /\ UNCHANGED rendering
            /\ UNCHANGED picture

handleCanvasClick(x, y) ==
    /\ phase = "run"
    /\ IF isPointInRect(x, y, btnPrevArea) THEN prevVideo
       ELSE IF isPointInRect(x, y, btnPlayArea) THEN togglePlay
       ELSE IF isPointInRect(x, y, btnNextArea) THEN nextVideo("nextVideo")
       ELSE IF isPointInRect(x, y, volumeArea) THEN cycleVolume
       ELSE IF isPointInRect(x, y, progressBar) THEN Scrub(x)
       ELSE /\ lastOp' = Op("click", x, {}, "none")
            /\ UNCHANGED <<phase, playlist, currentIndex, currentSubtitles, volumeLevel,
                           localStorage, videoElement, previewVideoElement, tasks, now, blobs,
                           budget, started>>
            /\ UNCHANGED rendering
            /\ UNCHANGED picture

\* the 'ended' event of the primary element: playback reached the end (handleVideoEnded)
handleVideoEnded ==
    /\ phase = "run"
    /\ ~videoElement.paused
    /\ videoElement.duration # DurationNaN
    /\ nextVideo("ended")

\* the 'loadedmetadata' step of the primary element: the duration becomes known
LoadedMetadata ==
    /\ phase = "run"
    /\ budget.media
    /\ videoElement.src # ""
    /\ videoElement.duration = DurationNaN
    /\ videoElement' = [videoElement EXCEPT !.duration = MediaDuration]
    /\ lastOp' = Op("loadedmetadata", 0 - 1, {}, "none")
    /\ UNCHANGED <<phase, playlist, currentIndex, currentSubtitles, volumeLevel, localStorage,
                   previewVideoElement, tasks, now, blobs, budget, started>>
    /\ UNCHANGED rendering
    /\ UNCHANGED picture

------------------------------------------------------------------------------
\* The continuations of setupVideo()
Without(ts, k) == SubSeq(ts, 1, k - 1) \o SubSeq(ts, k + 1, Len(ts))

\* the promise of play() settles: fulfilled (ok), or rejected, and then the catch of
\* setupVideo() logs the rejection; either way the call goes on to the captions.
\* A play() the browser did not allow is rejected.  The primary element is not
\* touched: a rejection leaves its paused flag as play() set it.
\* The promises of one element settle in the order of the calls.
PlaySettled(k, ok) ==
    /\ phase = "run"
    /\ k \in 1..Len(tasks)
    /\ tasks[k].pc = "play"
    /\ ok => tasks[k].allowed
    /\ \A j \in 1..(k - 1) : tasks[j].pc # "play"
    /\ IF tasks[k].url # NoUrl
       THEN /\ tasks' = [tasks EXCEPT ![k].pc = "fetch"]
            /\ UNCHANGED currentSubtitles
       ELSE /\ tasks' = Without(tasks, k)
            /\ currentSubtitles' = <<>>
    /\ lastOp' = Op("playSettled", k, IF ok THEN {} ELSE {"console.warn"}, "none")
    /\ UNCHANGED <<phase, playlist, currentIndex, volumeLevel, localStorage, videoElement,
                   previewVideoElement, now, blobs, budget, started>>
    /\ UNCHANGED rendering
    /\ UNCHANGED picture

\* fetch(url) settles, were fetchSubtitles() without its tests of the failure: a
\* bad response or a failure rejects the promise of setupVideo(), and the captions
\* stay
FetchSettledUncaught(k, ok) ==
    /\ phase = "run"
    /\ k \in 1..Len(tasks)
    /\ tasks[k].pc = "fetch"
    /\ IF ok
       THEN /\ tasks' = [tasks EXCEPT ![k].pc = "json"]
            /\ UNCHANGED unhandled
            /\ lastOp' = Op("fetchSettled", k, {}, "none")
       ELSE /\ tasks' = Without(tasks, k)
            /\ unhandled' = unhandled \cup {"setupVideo"}
            /\ lastOp' = Op("fetchSettled", k, {}, "rejected")
    /\ UNCHANGED <<phase, playlist, currentIndex, currentSubtitles, volumeLevel, localStorage,
                   videoElement, previewVideoElement, now, blobs, budget, started>>
    /\ UNCHANGED <<surface, loop, mousePos, isMouseOverProgressBar, promises>>
    /\ UNCHANGED picture

\* fetch(url) settles: with a good response the call goes on to read the body,
\* with a bad response or a failure fetchSubtitles() returns []
FetchSettled(k, ok) ==
    /\ phase = "run"
    /\ k \in 1..Len(tasks)
    /\ tasks[k].pc = "fetch"
    /\ IF ok
       THEN /\ tasks' = [tasks EXCEPT ![k].pc = "json"]
            /\ UNCHANGED currentSubtitles
       ELSE /\ tasks' = Without(tasks, k)
            /\ currentSubtitles' = <<>>
    /\ lastOp' = Op("fetchSettled", k, {}, "none")
    /\ UNCHANGED <<phase, playlist, currentIndex, volumeLevel, localStorage, videoElement,
                   previewVideoElement, now, blobs, budget, started>>
    /\ UNCHANGED rendering
    /\ UNCHANGED picture

\* response.json() settles: with the entries of the file, or with a failure and []
JsonSettled(k, ok) ==
    /\ phase = "run"
    /\ k \in 1..Len(tasks)
    /\ tasks[k].pc = "json"
    /\ tasks' = Without(tasks, k)
    /\ currentSubtitles' = IF ok THEN SubtitleFile(tasks[k].url) ELSE <<>>
    /\ lastOp' = Op("jsonSettled", k, {}, "none")
    /\ UNCHANGED <<phase, playlist, currentIndex, volumeLevel, localStorage, videoElement,
                   previewVideoElement, now, blobs, budget, started>>
    /\ UNCHANGED rendering
    /\ UNCHANGED picture

------------------------------------------------------------------------------
\* The pointer, the render loop and the preview
\* drawSubtitles(), were the entry taken the last one that holds the position
drawLastSubtitle(entries, t) ==
    IF Len(entries) = 0 THEN NoSubtitle
    ELSE IF \A i \in 1..Len(entries) : ~(t >= entries[i].start /\ t <= entries[i].end)
    THEN NoSubtitle
    ELSE entries[SetMax({i \in 1..Len(entries) : t >= entries[i].start /\ t <= entries[i].end})]

\* drawSubtitles(): the entry whose text it draws, by currentSubtitles.find()
drawSubtitles(entries, t) ==
    IF Len(entries) = 0 THEN NoSubtitle
    ELSE IF \A i \in 1..Len(entries) : ~(t >= entries[i].start /\ t <= entries[i].end)
    THEN NoSubtitle
    ELSE entries[SetMin({i \in 1..Len(entries) : t >= entries[i].start /\ t <= entries[i].end})]

\* a * k in binary64, for a whole number k of 0 to 255
FMulInt(a, k) == IF a.nan THEN NaN ELSE RoundToDouble(a.neg, MulSmall(a.m, k), a.e, FALSE)

\* the literals 0.2126, 0.7152 and 0.0722 of toThreshold()
LumaWeights ==
    [r |-> parseFloat(<<"0", ".", "2", "1", "2", "6">>),
     g |-> parseFloat(<<"0", ".", "7", "1", "5", "2">>),
     b |-> parseFloat(<<"0", ".", "0", "7", "2", "2">>)]

\* 0.2126 * r + 0.7152 * g + 0.0722 * b, summed from the left
Luminance(r, g, b) ==
    FAdd(FAdd(FMulInt(LumaWeights.r, r), FMulInt(LumaWeights.g, g)), FMulInt(LumaWeights.b, b))

\* the index before the first byte of the pixel, were every pixel read at the
\* first one
PixelBaseFirst(i) == 0

\* the index before the first byte of the pixel that holds byte i
PixelBase(i) == 4 * ((i - 1) \div 4)

\* toGrayscale(data), were the mean cut to a whole number
toGrayscaleFloor(data) ==
    [i \in 1..Len(data) |->
        IF i % 4 = 0 THEN data[i]
        ELSE (data[PixelBase(i) + 1] + data[PixelBase(i) + 2] + data[PixelBase(i) + 3]) \div 3]

\* toGrayscale(data): (r + g + b) / 3 is stored in a Uint8ClampedArray, which rounds
\* to the nearest whole number (a third is never half way)
toGrayscale(data) ==
    [i \in 1..Len(data) |->
        IF i % 4 = 0 THEN data[i]
        ELSE (data[PixelBase(i) + 1] + data[PixelBase(i) + 2] + data[PixelBase(i) + 3] + 1)
                 \div 3]

\* toInvert(data), were a colour c replaced by 256 - c (clamped by the array)
toInvertFrom256(data) ==
    [i \in 1..Len(data) |-> IF i % 4 = 0 THEN data[i] ELSE MinOf(255, 256 - data[i])]

\* toInvert(data)
toInvert(data) == [i \in 1..Len(data) |-> IF i % 4 = 0 THEN data[i] ELSE 255 - data[i]]

\* toThreshold(data)
toThreshold(data) ==
    [i \in 1..Len(data) |->
        IF i % 4 = 0 THEN data[i]
        ELSE IF FGe(Luminance(data[PixelBase(i) + 1], data[PixelBase(i) + 2],
                              data[PixelBase(i) + 3]), FromInt(128))
        THEN 255 ELSE 0]

\* applyVideoEffect(), were its return on "none" left out: the pixels are read and
\* put back as they are
applyVideoEffectNoReturn(buffer, frame, effect) ==
    [data |-> CASE effect = "grayscale" -> toGrayscale(frame)
                [] effect = "invert" -> toInvert(frame)
                [] effect = "threshold" -> toThreshold(frame)
                [] OTHER -> frame,
     cmds |-> {"getImageData", "putImageData"}]

\* applyVideoEffect(): the buffer on the canvas after it (buffer: the one before,
\* frame: the pixels getImageData() returns) and the calls it makes on the canvas
applyVideoEffect(buffer, frame, effect) ==
    IF effect = "none" THEN [data |-> buffer, cmds |-> {}]
    ELSE [data |-> CASE effect = "grayscale" -> toGrayscale(frame)
                     [] effect = "invert" -> toInvert(frame)
                     [] effect = "threshold" -> toThreshold(frame)
                     [] OTHER -> frame,
          cmds |-> {"getImageData", "putImageData"}]

\* the options of the effect <select>
Effects == {"none", "grayscale", "invert", "threshold"}

\* the user picks an option of the effect <select>
selectEffect(value) ==
    /\ phase = "run"
    /\ budget.effects
    /\ effectSelect' = value
    /\ lastOp' = Op("selectEffect", 0 - 1, {}, "none")
    /\ UNCHANGED <<phase, playlist, currentIndex, currentSubtitles, volumeLevel, localStorage,
                   videoElement, previewVideoElement, tasks, now, blobs, budget, started>>
    /\ UNCHANGED rendering
    /\ UNCHANGED <<videoFrame, imageData, subtitle>>


\* the points of the canvas the pointer moves to
HoverPoints == { <<400, 200>>, <<240, 415>>, <<740, 420>> }

\* handleCanvasMouseMove(event)
handleCanvasMouseMove(x, y) ==
    /\ phase = "run"
    /\ budget.render
    /\ mousePos' = [x |-> x, y |-> y]
    /\ isMouseOverProgressBar' =
           LET inXRange == x >= progressBar.x /\ x <= progressBar.x + progressBar.w
               inYRange == y >= progressBar.y /\ y <= progressBar.y + progressBar.h
           IN  inXRange /\ inYRange
    /\ lastOp' = Op("mousemove", x, {}, "none")
    /\ UNCHANGED <<phase, playlist, currentIndex, currentSubtitles, volumeLevel, localStorage,
                   videoElement, previewVideoElement, tasks, now, blobs, budget, started,
                   surface, loop, promises, unhandled>>
    /\ UNCHANGED picture

\* ratio * this.videoElement.duration, NaN while the duration is unknown
SeekTime(x, duration) ==
    IF duration = DurationNaN THEN DurationNaN
    ELSE ((x - progressBar.x) * duration) \div progressBar.w

\* drawPreviewFrame(mouseX), up to the play() it leaves pending.  Both comparisons
\* of its guard are false on NaN, and HTMLMediaElement.currentTime throws a
\* TypeError on a value that is not finite.
\* cmds: the calls the tick has made before it.
drawPreviewFrame(mouseX, cmds) ==
    \E previewTime \in {SeekTime(mouseX, videoElement.duration)} :
       IF previewTime # DurationNaN
              /\ (previewTime < 0 \/ previewTime > videoElement.duration)
       THEN /\ lastOp' = Op("render", mouseX, cmds, "none")
            /\ UNCHANGED <<previewVideoElement, promises, loop>>
       ELSE IF previewTime = DurationNaN
       THEN /\ lastOp' = Op("render", mouseX, cmds \cup {"preview.currentTime"}, "TypeError")
            /\ loop' = "aborted"
            /\ UNCHANGED <<previewVideoElement, promises>>
       ELSE /\ promises.preview < MaxPending
            /\ previewVideoElement' = [previewVideoElement EXCEPT
                                          !.currentTime = previewTime, !.paused = FALSE]
            /\ promises' = [promises EXCEPT !.preview = @ + 1]
            /\ lastOp' = Op("render", mouseX,
                            cmds \cup {"preview.currentTime", "preview.play"}, "none")
            /\ UNCHANGED loop

\* one tick of the loop of startRenderLoop(): drawFrame(), then the request of the
\* next tick.  drawFrame() draws the frame of the primary element, the captions and
\* the controls, whatever the playlist holds; an exception in it leaves the tick
\* before requestAnimationFrame() is reached.  With the effect "none"
\* applyVideoEffect() returns before it reads the pixels.
render ==
    /\ phase = "run"
    /\ budget.render
    /\ loop = "on"
    /\ surface' = "frame"
    /\ \E fx \in {applyVideoEffect(imageData, videoFrame, effectSelect)} :
          /\ imageData' = fx.data
          /\ IF isMouseOverProgressBar
             THEN drawPreviewFrame(mousePos.x, fx.cmds)
             ELSE /\ lastOp' = Op("render", 0 - 1, fx.cmds, "none")
                  /\ UNCHANGED <<previewVideoElement, promises, loop>>
    /\ subtitle' = drawSubtitles(currentSubtitles, videoElement.currentTime)
    /\ UNCHANGED <<effectSelect, videoFrame>>
    /\ UNCHANGED <<phase, playlist, currentIndex, currentSubtitles, volumeLevel, localStorage,
                   videoElement, tasks, now, blobs, budget, started, mousePos,
                   isMouseOverProgressBar, unhandled>>

\* the promise of previewVideoElement.play() settles: fulfilled, the callback of
\* then() pauses the preview and draws the thumbnail; rejected, nothing handles it
PreviewSettled(ok) ==
    /\ phase = "run"
    /\ promises.preview > 0
    /\ promises' = [promises EXCEPT !.preview = @ - 1]
    /\ IF ok
       THEN /\ previewVideoElement' = [previewVideoElement EXCEPT !.paused = TRUE]
            /\ surface' = "frame"
            /\ UNCHANGED unhandled
       ELSE /\ unhandled' = unhandled \cup {"preview"}
            /\ UNCHANGED <<previewVideoElement, surface>>
    /\ lastOp' = Op("previewSettled", 0 - 1, {}, IF ok THEN "none" ELSE "rejected")
    /\ UNCHANGED <<phase, playlist, currentIndex, currentSubtitles, volumeLevel, localStorage,
                   videoElement, tasks, now, blobs, budget, started, loop, mousePos,
                   isMouseOverProgressBar>>
    /\ UNCHANGED picture

\* the promise of the play() of togglePlay() settles; rejected, nothing handles it
TogglePlaySettled(ok) ==
    /\ phase = "run"
    /\ promises.toggle > 0
    /\ promises' = [promises EXCEPT !.toggle = @ - 1]
    /\ unhandled' = IF ok THEN unhandled ELSE unhandled \cup {"togglePlay"}
    /\ lastOp' = Op("togglePlaySettled", 0 - 1, {}, IF ok THEN "none" ELSE "rejected")
    /\ UNCHANGED <<phase, playlist, currentIndex, currentSubtitles, volumeLevel, localStorage,
                   videoElement, previewVideoElement, tasks, now, blobs, budget, started,
                   surface, loop, mousePos, isMouseOverProgressBar>>
    /\ UNCHANGED picture

\* the user reloads the page: the fields are constructed anew, the storage stays
Reload ==
    /\ phase = "run"
    /\ budget.reloads > 0
    /\ phase' = "boot"
    /\ playlist' = <<>>
    /\ currentIndex' = 0
    /\ currentSubtitles' = <<>>
    /\ volumeLevel' = One
    /\ videoElement' = NewVideoElement
    /\ previewVideoElement' = NewPreviewVideoElement
    /\ tasks' = <<>>
    /\ blobs' = 0
    /\ budget' = [budget EXCEPT !.reloads = @ - 1]
    /\ started' = NotStarted
    /\ lastOp' = [Op("reload", 0 - 1, {}, "none") EXCEPT
                     !.prev = [valid |-> TRUE, volumeLevel |-> volumeLevel,
                               currentIndex |-> currentIndex]]
    /\ surface' = "blank"
    /\ loop' = "off"
    /\ mousePos' = [x |-> 0, y |-> 0]
    /\ isMouseOverProgressBar' = FALSE
    /\ promises' = NoPromises
    /\ unhandled' = {}
    /\ effectSelect' = "none"
    /\ videoFrame' = <<>>
    /\ imageData' = <<>>
    /\ subtitle' = NoSubtitle
    /\ UNCHANGED <<localStorage, now>>

\* the files of one picker or drop event, with the clock readings
FileEvents ==
    UNION { [1..n -> FileNames] \X [1..n -> now..MaxClock] : n \in 1..MaxFilesPerEvent }

Next ==
    \/ InitPlayer
    \/ \E index \in 0..(Len(playlist) - 1) : SelectByIndex(index)
    \/ \E index \in 0..(Len(playlist) - 1) : MoveUp(index)
    \/ \E index \in 0..(Len(playlist) - 1) : MoveDown(index)
    \/ \E index \in 0..(Len(playlist) - 1) : Remove(index)
    \/ \E ev \in FileEvents : AddFiles(ev[1], ev[2])
    \/ \E pt \in ClickPoints : handleCanvasClick(pt[1], pt[2])
    \/ handleVideoEnded
    \/ LoadedMetadata
    \/ \E k \in 1..MaxTasks, ok \in BOOLEAN : PlaySettled(k, ok)
    \/ \E k \in 1..MaxTasks, ok \in BOOLEAN : FetchSettled(k, ok)
    \/ \E k \in 1..MaxTasks, ok \in BOOLEAN : JsonSettled(k, ok)
    \/ \E pt \in HoverPoints : handleCanvasMouseMove(pt[1], pt[2])
    \/ render
    \/ \E ok \in BOOLEAN : PreviewSettled(ok)
    \/ \E ok \in BOOLEAN : TogglePlaySettled(ok)
    \/ Reload

Spec == Init /\ [][Next]_vars

------------------------------------------------------------------------------
\* The drawing of one frame and the hit tests, on inputs of their own: the player
\* is taken while Movie 1 plays with its metadata known, and the caption file, the
\* position, the picture of the element and the pointer are drawn from small sets.

\* the pictures: of one pixel and of two, the luminance below, at and above 128, the
\* sum of the colours a multiple of 3, one more and two more
Frames ==
    LET px == { <<0, 0, 0, 255>>, <<255, 255, 255, 255>>, <<127, 127, 127, 255>>,
                <<128, 128, 128, 0>>, <<12, 175, 4, 255>>, <<12, 175, 5, 255>>,
                <<200, 30, 90, 7>>, <<1, 0, 0, 255>> }
        two == { <<128, 128, 128, 0>>, <<12, 175, 4, 255>>, <<200, 30, 90, 7>> }
    IN  px \cup {p \o q : p \in two, q \in two}

\* the caption files: empty, one entry, two that overlap in either order, two apart
CaptionFiles ==
    LET a == [start |-> 0, end |-> 5000, text |-> "a"]
        b == [start |-> 3000, end |-> 8000, text |-> "b"]
        c == [start |-> 9000, end |-> 9000, text |-> "c"]
    IN  { <<>>, <<a>>, <<a, b>>, <<b, a>>, <<b, c>>, <<c, a, b>> }

\* the positions of the primary element, in milliseconds
CaptionTimes == {0, 2999, 3000, 4000, 5000, 5001, 8000, 8001, 9000}

\* the points of the canvas: the corners of the regions, one step inside and outside
EdgePoints ==
    ({239, 240, 740, 741} \X {409, 410, 420, 421})
        \cup { <<19, 400>>, <<20, 400>>, <<50, 430>>, <<51, 430>>, <<35, 399>>, <<35, 431>>,
               <<60, 400>>, <<90, 430>>, <<100, 400>>, <<130, 430>>, <<135, 415>>,
               <<140, 400>>, <<220, 430>>, <<221, 430>>, <<490, 415>>, <<400, 200>> }

\* the runs: one that draws captions, one that filters pictures, one that points
Scenes ==
    {[budget |-> [NoBudget EXCEPT !.render = TRUE],
      captions |-> cs, time |-> t, frame |-> <<>>] : cs \in CaptionFiles, t \in CaptionTimes}
    \cup {[budget |-> [NoBudget EXCEPT !.render = TRUE, !.effects = TRUE],
           captions |-> <<>>, time |-> 0, frame |-> f] : f \in Frames}
    \cup {[budget |-> [NoBudget EXCEPT !.render = TRUE, !.pointer = TRUE, !.media = TRUE,
                                       !.loads = Few, !.cycles = Few],
           captions |-> <<>>, time |-> 0, frame |-> <<>>]}

CanvasInit ==
    /\ phase = "run"
    /\ playlist = InitialPlaylist
    /\ currentIndex = 0
    /\ volumeLevel = One
    /\ localStorage = Fresh
    /\ \E scene \in Scenes :
          /\ budget = scene.budget
          /\ currentSubtitles = scene.captions
          /\ videoElement = [src |-> InitialPlaylist[1].src, currentTime |-> scene.time,
                             volume |-> One, paused |-> FALSE, duration |-> MediaDuration]
          /\ videoFrame = scene.frame
    /\ previewVideoElement = [src |-> InitialPlaylist[1].src, currentTime |-> 0,
                              paused |-> TRUE]
    /\ tasks = <<>>
    /\ now = 0
    /\ blobs = 0
    /\ lastOp = Op("none", 0 - 1, {}, "none")
    /\ started = [done |-> TRUE, volumeLevel |-> One, currentIndex |-> 0]
    /\ surface = "blank"
    /\ loop = "on"
    /\ mousePos = [x |-> 0, y |-> 0]
    /\ isMouseOverProgressBar = FALSE
    /\ promises = NoPromises
    /\ unhandled = {}
    /\ effectSelect = "none"
    /\ imageData = <<>>
    /\ subtitle = NoSubtitle

\* a click falls where the pointer is
CanvasNext ==
    \/ render
    \/ \E value \in Effects : selectEffect(value)
    \/ \E pt \in EdgePoints : budget.pointer /\ handleCanvasMouseMove(pt[1], pt[2])
    \/ budget.pointer /\ handleCanvasClick(mousePos.x, mousePos.y)

CanvasSpec == CanvasInit /\ [][CanvasNext]_vars

(***************************************************************************)
(* PART 5.  The claims.                                                    *)
(***************************************************************************)
IndexInRange(i, n) == i # IndexNaN /\ 0 <= i /\ i < n

\* the caption locator of the item with source src
SubtitleUrlOf(src) ==
    IF \E k \in 1..Len(InitialPlaylist) : InitialPlaylist[k].src = src
    THEN InitialPlaylist[CHOOSE k \in 1..Len(InitialPlaylist) : InitialPlaylist[k].src = src].subtitleUrl
    ELSE NoUrl

\* the operations that load an item
Loads == {"select", "nextVideo", "prevVideo", "ended", "remove"}

\* C1: in a session that init() started with the index in range, every state
\* with a non-empty playlist has 0 <= currentIndex < playlist.length, whatever
\* selections, Next and Previous clicks, 'ended' events, moves, removals and
\* added files came before (the playlist may have been emptied and refilled).
C1_IndexInRange ==
    (/\ phase = "run"
     /\ IndexInRange(started.currentIndex, Len(InitialPlaylist))
     /\ Len(playlist) > 0)
        => IndexInRange(currentIndex, Len(playlist))

\* C1, the failing run: all four items removed, Previous clicked on the empty
\* playlist, then a file added.
C1_IndexBelowZero ==
    /\ phase = "run"
    /\ IndexInRange(started.currentIndex, Len(InitialPlaylist))
    /\ lastOp.op = "addFiles"
    /\ Len(playlist) > 0
    /\ currentIndex = 0 - 1

\* C2: once every suspended setupVideo() call has run to its end, the active
\* captions are those of the item loaded last: the entries of its file, or
\* none if it has no locator or its fetch failed.
C2_CaptionsOfLastLoad ==
    (phase = "run" /\ tasks = <<>> /\ videoElement.src # "")
        => \/ currentSubtitles = <<>>
           \/ /\ SubtitleUrlOf(videoElement.src) # NoUrl
              /\ currentSubtitles = SubtitleFile(SubtitleUrlOf(videoElement.src))

\* C2, the failing run: Movie 3 is selected while the load of Movie 1 is
\* suspended; the captions of Movie 1 arrive last.
C2_StaleCaptions ==
    /\ phase = "run"
    /\ tasks = <<>>
    /\ lastOp.op = "jsonSettled"
    /\ videoElement.src = InitialPlaylist[3].src
    /\ currentSubtitles = SubtitleFile(InitialPlaylist[1].subtitleUrl)

\* C3: removing the entry at an index below the active index moves the active
\* index down by one, so that it names the same item as before.
C3_RemoveBelowShifts ==
    [][(/\ phase = "run"
        /\ IndexInRange(currentIndex, Len(playlist))
        /\ lastOp'.op = "remove"
        /\ lastOp'.arg < currentIndex)
          => /\ currentIndex' = currentIndex - 1
             /\ Item(playlist', currentIndex') = Item(playlist, currentIndex)]_vars

\* C3, the failing run: index 2 (Movie 3) is active and persisted, the entry at
\* index 0 is removed; the index stays 2, which now names Movie 4.
C3_IndexNotShifted ==
    /\ phase = "run"
    /\ lastOp.op = "remove"
    /\ lastOp.arg = 0
    /\ localStorage.index = <<"2">>
    /\ currentIndex = 2
    /\ Len(playlist) = 3
    /\ videoElement.src = InitialPlaylist[4].src

\* C4: with the playlist empty, Next, Previous, 'ended', togglePlay, cycleVolume
\* and a click on the scrub bar issue no command to the primary element.
C4_NoCommandWhenEmpty ==
    (/\ phase = "run"
     /\ Len(playlist) = 0
     /\ lastOp.op \in {"nextVideo", "prevVideo", "ended", "togglePlay", "cycleVolume", "scrub"})
        => lastOp.cmds = {}

\* C4, the failing run: the playlist is emptied and the volume region clicked.
C4_VolumeCommandWhenEmpty ==
    /\ phase = "run"
    /\ Len(playlist) = 0
    /\ lastOp.op = "cycleVolume"
    /\ "volume" \in lastOp.cmds

\* C5: with n > 0 items, Next and 'ended' set the index to (index + 1) mod n,
\* Previous sets it to (index - 1 + n) mod n, and the item at the new index is
\* loaded.
C5_WrapAround ==
    [][(phase = "run" /\ Len(playlist) > 0 /\ lastOp'.op \in {"nextVideo", "ended", "prevVideo"})
          => /\ lastOp'.op \in {"nextVideo", "ended"}
                  => currentIndex' = (currentIndex + 1) % Len(playlist)
             /\ lastOp'.op = "prevVideo"
                  => currentIndex' = (currentIndex - 1 + Len(playlist)) % Len(playlist)
             /\ lastOp'.err = "none"
             /\ videoElement'.src = Item(playlist, currentIndex').src]_vars

\* C5, the failing run: the persisted index is not a number (C9), Next is
\* clicked: the index stays NaN and setupVideo(undefined) throws.
C5_NextFromNaN ==
    /\ phase = "run"
    /\ Len(playlist) = 4
    /\ lastOp.op = "nextVideo"
    /\ lastOp.err = "TypeError"
    /\ currentIndex = IndexNaN

\* C6: with the playlist empty, Next and Previous change nothing: the index,
\* the two persisted entries and the primary element stay as they were.
C6_EmptyNoOp ==
    [][(phase = "run" /\ Len(playlist) = 0 /\ lastOp'.op \in {"nextVideo", "prevVideo"})
          => /\ currentIndex' = currentIndex
             /\ localStorage' = localStorage
             /\ videoElement' = videoElement
             /\ playlist' = playlist]_vars

\* C6, the failing run: Previous on the emptied playlist leaves index -1, and
\* persists it.
C6_PreviousOnEmpty ==
    /\ phase = "run"
    /\ Len(playlist) = 0
    /\ lastOp.op = "prevVideo"
    /\ currentIndex = 0 - 1
    /\ localStorage.index = <<"-", "1">>

\* C7: after a selection, Next, Previous, 'ended', a removal or cycleVolume, the
\* persisted index is the text of currentIndex and the persisted volume the
\* text of volumeLevel.
C7_StoreAgrees ==
    (phase = "run" /\ lastOp.op \in Loads \cup {"cycleVolume"})
        => localStorage = saveSettings(volumeLevel, currentIndex)

\* C7, the failing run: index 3 is selected and removed; currentIndex is 2, the
\* persisted index still 3.
C7_RemoveNotPersisted ==
    /\ phase = "run"
    /\ lastOp.op = "remove"
    /\ lastOp.arg = 3
    /\ currentIndex = 2
    /\ localStorage.index = <<"3">>

\* C8: init() after a reload restores the volumeLevel and the currentIndex the
\* session before had when it ended.
C8_ReloadRestores ==
    (phase = "run" /\ lastOp.op = "init" /\ lastOp.prev.valid)
        => /\ volumeLevel = lastOp.prev.volumeLevel
           /\ currentIndex = lastOp.prev.currentIndex

\* C8, the failing run: a file is added and selected (index 4), the page is
\* reloaded; init() reads 4, finds it out of range and resets it to 0.
C8_AddedFileForgotten ==
    /\ phase = "run"
    /\ lastOp.op = "init"
    /\ lastOp.prev.valid
    /\ lastOp.prev.currentIndex = 4
    /\ localStorage.index = <<"4">>
    /\ currentIndex = 0

\* C9: init() leaves 0 <= currentIndex < 4 and the item at that index in the
\* primary element, whatever the persisted index holds.
C9_InitIndexValid ==
    (phase = "run" /\ lastOp.op = "init")
        => /\ IndexInRange(currentIndex, Len(InitialPlaylist))
           /\ videoElement.src = Item(playlist, currentIndex).src

\* C9, the failing run: the persisted index is "abc"; currentIndex is NaN after
\* init() and nothing is loaded.
C9_InitIndexNaN ==
    /\ phase = "run"
    /\ lastOp.op = "init"
    /\ localStorage.index = <<"a", "b", "c">>
    /\ currentIndex = IndexNaN
    /\ videoElement.src = ""

\* C10: volumeLevel is within [0, 1] in every state after init().
C10_VolumeInRange == phase = "run" => ValidVolume(volumeLevel)

\* C10, the failing run: the persisted volume is "5"; volumeLevel is 5 after
\* init(), and the primary element refuses it.
C10_InitVolumeFive ==
    /\ phase = "run"
    /\ lastOp.op = "init"
    /\ lastOp.err = "volume"
    /\ volumeLevel = FromInt(5)


------------------------------------------------------------------------------
\* The values 0, 0.2, 0.4, 0.6, 0.8 and 1.0, as the Numbers their literals denote
CycleValues ==
    << parseFloat(<<"0">>), parseFloat(<<"0", ".", "2">>), parseFloat(<<"0", ".", "4">>),
       parseFloat(<<"0", ".", "6">>), parseFloat(<<"0", ".", "8">>), parseFloat(<<"1">>) >>

\* C11: one volume-cycle step leads from each of 0, 0.2, 0.4, 0.6, 0.8, 1.0 to the
\* next value of that list, and from 1.0 to 0: the steps visit 0, 0.2, 0.4, 0.6, 0.8,
\* 1.0, 0, ...
C11_VolumeCycle ==
    [][(phase = "run" /\ lastOp'.op = "cycleVolume"
            /\ \E i \in 1..Len(CycleValues) : volumeLevel = CycleValues[i])
          => \E i \in 1..Len(CycleValues) :
                /\ volumeLevel = CycleValues[i]
                /\ volumeLevel' = CycleValues[(i % Len(CycleValues)) + 1]]_vars

\* C11, the run that fails: the step from 0.4 gives 0.6000000000000001
C11_StepFromPointFour ==
    /\ phase = "run"
    /\ lastOp.op = "cycleVolume"
    /\ volumeLevel # CycleValues[4]
    /\ localStorage.volume = <<"0", ".", "6", "0", "0", "0", "0", "0", "0", "0", "0", "0",
                               "0", "0", "0", "0", "0", "1">>

\* C12: when neither persisted key is present, init() starts with volumeLevel = 1.0
\* and currentIndex = 0
C12_DefaultsWhenAbsent ==
    (phase = "run" /\ lastOp.op = "init" /\ localStorage = Fresh)
        => (volumeLevel = One /\ currentIndex = 0)

\* C12, its case: init() has run on an empty store and has loaded the first item
C12_FreshStart ==
    /\ phase = "run"
    /\ lastOp.op = "init"
    /\ localStorage = Fresh
    /\ volumeLevel = One
    /\ currentIndex = 0
    /\ videoElement.src = InitialPlaylist[1].src

\* C13: removing the active entry leaves the index valid for the new length and
\* loads the item now at that index; when the removal empties the playlist, the
\* primary element is paused, the surface is cleared and no item is loaded
C13_RemoveActive ==
    [][(phase = "run" /\ IndexInRange(currentIndex, Len(playlist))
            /\ lastOp'.op = "remove" /\ lastOp'.arg = currentIndex)
          => IF Len(playlist') > 0
             THEN /\ IndexInRange(currentIndex', Len(playlist'))
                  /\ lastOp'.err = "none"
                  /\ "play" \in lastOp'.cmds
                  /\ videoElement'.src = Item(playlist', currentIndex').src
             ELSE /\ videoElement'.paused
                  /\ surface' = "clear"
                  /\ "src" \notin lastOp'.cmds]_vars

\* C13, the run that fails: the persisted volume is 5, the load of the item that
\* follows the removed one stops at the volume
C13_LoadAborted ==
    /\ phase = "run"
    /\ lastOp.op = "remove"
    /\ lastOp.arg = currentIndex
    /\ lastOp.err = "volume"
    /\ Len(playlist) = 3
    /\ volumeLevel = FromInt(5)
    /\ videoElement.src = Item(playlist, currentIndex).src
    /\ previewVideoElement.src # videoElement.src

\* C14: once the playlist is empty and the last removal has cleared the surface, no
\* render tick draws onto it: the surface is still cleared after every tick
C14_NoDrawWhenEmpty ==
    [][(phase = "run" /\ Len(playlist) = 0 /\ surface = "clear" /\ lastOp'.op = "render")
          => surface' = "clear"]_vars

\* C14, the run that fails: a tick has drawn onto the surface of the emptied player
C14_DrawnWhileEmpty ==
    /\ phase = "run"
    /\ Len(playlist) = 0
    /\ lastOp.op = "render"
    /\ surface = "frame"
    /\ videoElement.paused
    /\ tasks = <<>>

\* C15: adding one file to an empty playlist leaves a playlist of one item with
\* currentIndex = 0 and that item loaded into the primary media element
C15_AddToEmptyLoads ==
    [][(phase = "run" /\ Len(playlist) = 0 /\ lastOp'.op = "addFiles" /\ lastOp'.arg = 1)
          => /\ Len(playlist') = 1
             /\ currentIndex' = 0
             /\ videoElement'.src = playlist'[1].src]_vars

\* C15, the run that fails: the file is in the playlist at index 0 and the primary
\* element still holds the last item removed
C15_AddedNotLoaded ==
    /\ phase = "run"
    /\ lastOp.op = "addFiles"
    /\ Len(playlist) = 1
    /\ currentIndex = 0
    /\ playlist[1].src = ObjectUrls[1]
    /\ videoElement.src = InitialPlaylist[4].src

\* C16: in every reachable state with a non-empty playlist the source loaded in the
\* primary element is playlist[currentIndex].src, also after moveUp, moveDown and
\* addFiles (stated for the runs that init() starts at a valid index with a valid
\* volume)
C16_IndexIsPlaying ==
    (phase = "run" /\ Len(playlist) > 0
        /\ IndexInRange(started.currentIndex, Len(InitialPlaylist))
        /\ ValidVolume(started.volumeLevel))
        => videoElement.src = Item(playlist, currentIndex).src

\* C16, the run that fails: the active entry was moved down, the index stayed
C16_MovedActive ==
    /\ phase = "run"
    /\ lastOp.op = "moveDown"
    /\ lastOp.arg = 0
    /\ currentIndex = 0
    /\ playlist[1] = InitialPlaylist[2]
    /\ playlist[2] = InitialPlaylist[1]
    /\ videoElement.src = InitialPlaylist[1].src

\* C17: no step of a render tick aborts the loop: in every state after init() a tick
\* completes without an exception and the next tick is requested
C17_TickNeverAborts ==
    [][(phase = "run" /\ loop = "on" /\ lastOp'.op = "render")
          => (lastOp'.err = "none" /\ loop' = "on")]_vars

\* C17, the run that fails: the pointer is over the scrub bar while the duration is
\* unknown, the tick has thrown and no further tick is requested
C17_LoopAborted ==
    /\ phase = "run"
    /\ loop = "aborted"
    /\ lastOp.op = "render"
    /\ lastOp.err = "TypeError"
    /\ isMouseOverProgressBar
    /\ videoElement.duration = DurationNaN

\* C18: every position written to the primary element by a scrub-bar click and to
\* the preview element by hover sampling is a time t with 0 <= t <= duration, and
\* none is written while the duration is unknown
C18_SeekInRange ==
    (phase = "run"
        /\ \/ lastOp.op = "scrub"
           \/ lastOp.op = "render" /\ "preview.currentTime" \in lastOp.cmds)
        => /\ videoElement.duration # DurationNaN
           /\ lastOp.err = "none"
           /\ 0 <= SeekTime(lastOp.arg, videoElement.duration)
           /\ SeekTime(lastOp.arg, videoElement.duration) <= videoElement.duration
           /\ (lastOp.op = "scrub"
                 => videoElement.currentTime = SeekTime(lastOp.arg, videoElement.duration))
           /\ (lastOp.op = "render"
                 => previewVideoElement.currentTime
                        = SeekTime(lastOp.arg, videoElement.duration))

\* C18, the run that fails: a click on the scrub bar while the duration is unknown
\* has written NaN to currentTime
C18_SeekToNaN ==
    /\ phase = "run"
    /\ lastOp.op = "scrub"
    /\ "currentTime" \in lastOp.cmds
    /\ lastOp.err = "currentTime"
    /\ videoElement.duration = DurationNaN
    /\ videoElement.src # ""

\* C19: a rejected play request is absorbed wherever it is issued, in an item load
\* and in togglePlay: it never becomes an unhandled failure
C19_PlayRejectionAbsorbed == phase = "run" => "togglePlay" \notin unhandled

\* C19, the run that fails: the play() of togglePlay() was rejected and nothing
\* handled the rejection
C19_ToggleRejected ==
    /\ phase = "run"
    /\ lastOp.op = "togglePlaySettled"
    /\ lastOp.err = "rejected"
    /\ "togglePlay" \in unhandled
    /\ promises.toggle = 0

\* C20: a failing preview sample raises no unhandled failure
C20_PreviewFailureSwallowed == phase = "run" => "preview" \notin unhandled

\* C20, the run that fails: the play() of the preview element was rejected and
\* nothing handled the rejection
C20_PreviewRejected ==
    /\ phase = "run"
    /\ lastOp.op = "previewSettled"
    /\ lastOp.err = "rejected"
    /\ "preview" \in unhandled
    /\ loop = "on"
    /\ surface = "frame"

\* C21: the two elements are independent: preview sampling (its seek, play, pause
\* and the settling of its promise) leaves the primary element as it is, and
\* scrub clicks, togglePlay and cycleVolume leave the preview element as it is
C21_StreamsIndependent ==
    [][phase = "run"
          => /\ (lastOp'.op \in {"render", "previewSettled"} => videoElement' = videoElement)
             /\ (lastOp'.op \in {"scrub", "togglePlay", "cycleVolume"}
                   => previewVideoElement' = previewVideoElement)]_vars

\* C21, its case: a tick has sought the preview to the end and started it while the
\* primary element is at the position a scrub click gave it
C21_PreviewSampled ==
    /\ phase = "run"
    /\ lastOp.op = "render"
    /\ "preview.play" \in lastOp.cmds
    /\ previewVideoElement.currentTime = MediaDuration
    /\ ~previewVideoElement.paused
    /\ videoElement.currentTime = MediaDuration \div 2
    /\ videoElement.src = previewVideoElement.src

\* C22: a click on the title at a valid index i sets currentIndex to i and loads
\* playlist[i] into the primary element at position 0 with the volume volumeLevel,
\* the play request pending (Loading); when the request settles the element is
\* playing if it was accepted and paused if it was rejected
C22_SelectLoadsAndSettles ==
    [][phase = "run"
          => /\ (lastOp'.op = "select"
                   => /\ currentIndex' = lastOp'.arg
                      /\ lastOp'.err = "none"
                      /\ videoElement'.src = playlist[lastOp'.arg + 1].src
                      /\ videoElement'.currentTime = 0
                      /\ videoElement'.volume = volumeLevel
                      /\ Len(tasks') = Len(tasks) + 1
                      /\ tasks'[Len(tasks')].pc = "play")
             /\ (lastOp.op = "select" /\ lastOp.err = "none"
                   /\ lastOp'.op = "playSettled" /\ lastOp'.arg = Len(tasks)
                   => videoElement'.paused = ("console.warn" \in lastOp'.cmds))]_vars

\* C22, a failing run: in a run started at index 0 the title at index 2 is clicked
\* (the one load of the run: the buttons lead to 1 and 3), its play request is
\* rejected, and the primary element holds the item and is not paused
C22_RejectedNotPaused ==
    /\ phase = "run"
    /\ lastOp.op = "playSettled"
    /\ "console.warn" \in lastOp.cmds
    /\ playlist = InitialPlaylist
    /\ started.currentIndex = 0
    /\ budget.loads = MaxLoads - 1
    /\ currentIndex = 2
    /\ videoElement.src = playlist[3].src
    /\ ~videoElement.paused

\* C23: togglePlay issues play exactly when the primary element is paused and pause
\* exactly when it is not, and the element follows the command; two toggles in a
\* row bring the paused flag back to what it was before the first
C23_ToggleFlips ==
    [][phase = "run" /\ lastOp'.op = "togglePlay" /\ lastOp' # lastOp
          => /\ ("play" \in lastOp'.cmds) = videoElement.paused
             /\ ("pause" \in lastOp'.cmds) = ~videoElement.paused
             /\ videoElement'.paused = ~videoElement.paused
             /\ (lastOp.op = "togglePlay"
                   => videoElement'.paused = ("play" \in lastOp.cmds))]_vars

\* C23, its case: the element was toggled to play and then toggled again, and is
\* paused as before
C23_ToggledBack ==
    /\ phase = "run"
    /\ lastOp.op = "togglePlay"
    /\ lastOp.cmds = {"pause"}
    /\ promises.toggle = 1
    /\ videoElement.paused

\* C24: when the fetch of a caption file fails (no response, or a response that is
\* not ok) the captions become empty and nothing else is disturbed: no exception,
\* no rejected promise, the primary element and the render loop as they were
C24_FetchFailureAbsorbed ==
    [][phase = "run" /\ lastOp'.op = "fetchSettled" /\ Len(tasks') < Len(tasks)
          => /\ currentSubtitles' = <<>>
             /\ lastOp'.err = "none"
             /\ unhandled' = unhandled
             /\ videoElement' = videoElement
             /\ loop' = loop]_vars

\* C24, its case: the fetch of the captions of the item that is playing has failed
C24_FetchFailed ==
    /\ phase = "run"
    /\ lastOp.op = "fetchSettled"
    /\ tasks = <<>>
    /\ currentIndex \in 0..(Len(playlist) - 1)
    /\ playlist[currentIndex + 1].subtitleUrl # NoUrl
    /\ videoElement.src = playlist[currentIndex + 1].src
    /\ ~videoElement.paused
    /\ currentSubtitles = <<>>
    /\ loop = "on"

\* C25: no two items of the playlist have the same id
C25_IdsDistinct ==
    \A i, j \in 1..Len(playlist) : i # j => playlist[i].id # playlist[j].id

\* C25, a failing run: one event has added two files of the same name within one
\* millisecond, and the two new items have one id
C25_TwinIds ==
    /\ phase = "run"
    /\ lastOp.op = "addFiles"
    /\ lastOp.arg = 2
    /\ Len(playlist) >= 2
    /\ playlist[Len(playlist)].id = playlist[Len(playlist) - 1].id
    /\ playlist[Len(playlist)].title = playlist[Len(playlist) - 1].title
    /\ playlist[Len(playlist)].src # playlist[Len(playlist) - 1].src

\* C26: the caption of a tick is the first entry of currentSubtitles, in the order
\* of the sequence, whose interval start..end (both ends included) holds the
\* position; none when the sequence is empty or no interval holds it; the sequence
\* is left as it is.  Of [0 s, 5 s, a], [3 s, 8 s, b] at 4 s it is a.
C26_FirstActiveEntry ==
    [][phase = "run" /\ lastOp'.op = "render"
          => /\ currentSubtitles' = currentSubtitles
             /\ ((\A i \in 1..Len(currentSubtitles) :
                      ~(currentSubtitles[i].start <= videoElement.currentTime
                          /\ videoElement.currentTime <= currentSubtitles[i].end))
                   => subtitle' = NoSubtitle)
             /\ \A i \in 1..Len(currentSubtitles) :
                   (/\ currentSubtitles[i].start <= videoElement.currentTime
                    /\ videoElement.currentTime <= currentSubtitles[i].end
                    /\ \A j \in 1..(i - 1) :
                          ~(currentSubtitles[j].start <= videoElement.currentTime
                              /\ videoElement.currentTime <= currentSubtitles[j].end))
                   => subtitle' = currentSubtitles[i]
             /\ (currentSubtitles = << [start |-> 0, end |-> 5000, text |-> "a"],
                                       [start |-> 3000, end |-> 8000, text |-> "b"] >>
                   /\ videoElement.currentTime = 4000
                   => subtitle'.text = "a")]_vars

\* C26, its case: two entries hold the position 4 s, and the first is drawn
C26_OverlapDrawn ==
    /\ lastOp.op = "render"
    /\ Len(currentSubtitles) = 2
    /\ videoElement.currentTime = 4000
    /\ \A i \in 1..2 : currentSubtitles[i].start <= 4000 /\ 4000 <= currentSubtitles[i].end
    /\ currentSubtitles[1].text = "a"
    /\ currentSubtitles[2].text = "b"
    /\ subtitle = currentSubtitles[1]

C28_ContainsInclusive ==
    phase = "run"
       => /\ \A r \in {btnPrevArea, btnPlayArea, btnNextArea, volumeArea, progressBar} :
                isPointInRect(mousePos.x, mousePos.y, r)
                  = (/\ r.x <= mousePos.x /\ mousePos.x <= r.x + r.w
                     /\ r.y <= mousePos.y /\ mousePos.y <= r.y + r.h)
          /\ isMouseOverProgressBar = isPointInRect(mousePos.x, mousePos.y, progressBar)

\* C28, its case: the pointer is on the far corner of the progress bar, and over it
C28_OnCorner ==
    /\ lastOp.op = "mousemove"
    /\ mousePos = [x |-> progressBar.x + progressBar.w, y |-> progressBar.y + progressBar.h]
    /\ isMouseOverProgressBar

\* C29: a click at x on the progress bar moves the primary element to
\* ((x - progressBar.x) / progressBar.w) * duration (to the millisecond): to 0 at
\* the left edge, to the duration at the right edge, and never to an earlier
\* position for a click further right
C29_ScrubMapping ==
    [][(/\ phase = "run"
        /\ lastOp'.op = "scrub"
        /\ lastOp' # lastOp \/ videoElement' # videoElement)
          => /\ lastOp'.err = "none"
             /\ videoElement'.currentTime * progressBar.w
                    <= (lastOp'.arg - progressBar.x) * videoElement.duration
             /\ (lastOp'.arg - progressBar.x) * videoElement.duration
                    < (videoElement'.currentTime + 1) * progressBar.w
             /\ (lastOp'.arg = progressBar.x => videoElement'.currentTime = 0)
             /\ (lastOp'.arg = progressBar.x + progressBar.w
                   => videoElement'.currentTime = videoElement.duration)
             /\ (lastOp.op = "scrub" /\ lastOp.err = "none" /\ lastOp.arg <= lastOp'.arg
                   => videoElement.currentTime <= videoElement'.currentTime)]_vars

\* C29, a failing run: the middle of the progress bar is clicked while the duration
\* is unknown; the assignment throws and the element stays at the start
C29_ClickBeforeMetadata ==
    /\ phase = "run"
    /\ lastOp.op = "scrub"
    /\ lastOp.arg = progressBar.x + progressBar.w \div 2
    /\ lastOp.err # "none"
    /\ videoElement.src # ""
    /\ videoElement.duration = DurationNaN
    /\ videoElement.currentTime = 0

C31_InvertTwiceRestores ==
    phase = "run" /\ lastOp.op = "render" /\ effectSelect = "invert"
       => /\ Len(imageData) = Len(videoFrame)
          /\ \A i \in 1..Len(imageData) : i % 4 # 0 => imageData[i] = 255 - videoFrame[i]
          /\ toInvert(imageData) = videoFrame

\* C31, its case: a picture of two different pixels has been inverted
C31_Inverted ==
    /\ lastOp.op = "render"
    /\ effectSelect = "invert"
    /\ videoFrame = <<12, 175, 4, 255, 200, 30, 90, 7>>
    /\ imageData = <<243, 80, 251, 255, 55, 225, 165, 7>>

\* C32: a tick with the effect "grayscale" gives the three colour bytes of every
\* pixel one value, the whole number in 0..255 nearest to (R + G + B) / 3 of the
\* pixel of the picture
C32_GrayscaleIsMean ==
    phase = "run" /\ lastOp.op = "render" /\ effectSelect = "grayscale"
       => /\ Len(imageData) = Len(videoFrame)
          /\ \A k \in 0..(Len(videoFrame) \div 4 - 1) :
                /\ imageData[4 * k + 1] \in 0..255
                /\ imageData[4 * k + 2] = imageData[4 * k + 1]
                /\ imageData[4 * k + 3] = imageData[4 * k + 1]
                /\ 3 * imageData[4 * k + 1] - 1
                     <= videoFrame[4 * k + 1] + videoFrame[4 * k + 2] + videoFrame[4 * k + 3]
                /\ videoFrame[4 * k + 1] + videoFrame[4 * k + 2] + videoFrame[4 * k + 3]
                     <= 3 * imageData[4 * k + 1] + 1

\* C32, its case: the mean 63 2/3 of the pixel (12, 175, 4) has become 64
C32_RoundedUp ==
    /\ lastOp.op = "render"
    /\ effectSelect = "grayscale"
    /\ videoFrame = <<12, 175, 4, 255>>
    /\ imageData = <<64, 64, 64, 255>>

\* C33: a tick with the effect "none" leaves the buffer on the canvas as it is and
\* neither reads nor writes the pixels
C33_NoneLeavesBuffer ==
    [][phase = "run" /\ lastOp'.op = "render" /\ effectSelect = "none"
          => /\ imageData' = imageData
             /\ videoFrame' = videoFrame
             /\ "getImageData" \notin lastOp'.cmds
             /\ "putImageData" \notin lastOp'.cmds]_vars

\* C33, its case: a tick with "none" after one with "invert": the inverted buffer
\* is as that tick left it
C33_NoneAfterInvert ==
    /\ lastOp.op = "render"
    /\ effectSelect = "none"
    /\ lastOp.cmds = {}
    /\ videoFrame = <<200, 30, 90, 7>>
    /\ imageData = <<55, 225, 165, 7>>

\* C34: a tick with an effect keeps the length of the picture and the alpha byte
\* of every pixel, and the colours it gives a pixel are those it gives that pixel
\* alone, whatever its alpha and its neighbours
C34_EffectsAreLocal ==
    phase = "run" /\ lastOp.op = "render" /\ effectSelect \in {"grayscale", "invert", "threshold"}
       => /\ Len(imageData) = Len(videoFrame)
          /\ \A k \in 0..(Len(videoFrame) \div 4 - 1) :
                /\ imageData[4 * k + 4] = videoFrame[4 * k + 4]
                /\ \A alpha \in {0, 255} :
                      SubSeq(imageData, 4 * k + 1, 4 * k + 3)
                        = SubSeq(applyVideoEffect(<<>>, <<videoFrame[4 * k + 1],
                                                         videoFrame[4 * k + 2],
                                                         videoFrame[4 * k + 3], alpha>>,
                                                  effectSelect).data, 1, 3)

\* C34, its case: a picture of two different pixels, the second with the alpha 7,
\* has been turned to grey
C34_TwoPixelsFiltered ==
    /\ lastOp.op = "render"
    /\ effectSelect = "grayscale"
    /\ videoFrame = <<12, 175, 4, 255, 200, 30, 90, 7>>
    /\ imageData = <<64, 64, 64, 255, 107, 107, 107, 7>>

C36_RemoveAlwaysReloads ==
    [][(phase = "run" /\ lastOp'.op = "remove" /\ lastOp' # lastOp /\ Len(playlist') > 0)
          => /\ lastOp'.err = "none"
             /\ videoElement'.src = Item(playlist', currentIndex').src
             /\ videoElement'.currentTime = 0
             /\ "play" \in lastOp'.cmds
             /\ Len(tasks') = Len(tasks) + 1]_vars

\* C36, the failing run: an entry other than the active one was removed and the
\* load stopped at the volume, before play()
C36_ReloadAborted ==
    /\ phase = "run"
    /\ lastOp.op = "remove"
    /\ lastOp.arg > currentIndex
    /\ currentIndex = 0
    /\ lastOp.err = "volume"
    /\ "play" \notin lastOp.cmds
    /\ ~ValidVolume(volumeLevel)
    /\ Len(playlist) > 0

\* C37: an event that adds files appends one item per file to the end of the
\* playlist in the order of the files, keeps the items already there and their
\* order, and leaves currentIndex, volumeLevel, the persisted entries, the caption
\* set and the loaded media as they are
C37_AddAppends ==
    [][(phase = "run" /\ lastOp'.op = "addFiles" /\ lastOp' # lastOp)
          => /\ Len(playlist') = Len(playlist) + lastOp'.arg
             /\ SubSeq(playlist', 1, Len(playlist)) = playlist
             /\ \A k \in 1..lastOp'.arg :
                   /\ playlist'[Len(playlist) + k].src = ObjectUrls[blobs + k]
                   /\ playlist'[Len(playlist) + k].title \in FileNames
                   /\ playlist'[Len(playlist) + k].subtitleUrl = NoUrl
             /\ currentIndex' = currentIndex
             /\ volumeLevel' = volumeLevel
             /\ localStorage' = localStorage
             /\ currentSubtitles' = currentSubtitles
             /\ videoElement' = videoElement
             /\ previewVideoElement' = previewVideoElement]_vars

\* C37, its case: one event has added two files behind the four items of the
\* start, while the first of them is loaded
C37_TwoAppended ==
    /\ phase = "run"
    /\ lastOp.op = "addFiles"
    /\ lastOp.arg = 2
    /\ Len(playlist) = 6
    /\ SubSeq(playlist, 1, 4) = InitialPlaylist
    /\ playlist[5].src = ObjectUrls[1]
    /\ playlist[6].src = ObjectUrls[2]
    /\ videoElement.src = InitialPlaylist[1].src

\* C38: the five control regions are pairwise disjoint with their edges counted in:
\* any two of them are apart along x or along y, no pointer position is inside two
\* of them, and a click runs the command of the one region that holds its point,
\* whatever the order of the tests
C38_RegionsDisjoint ==
    [][LET regions == << btnPrevArea, btnPlayArea, btnNextArea, volumeArea, progressBar >>
           commands == << "prevVideo", "togglePlay", "nextVideo", "cycleVolume", "scrub" >>
           hit(k) == isPointInRect(mousePos.x, mousePos.y, regions[k])
           apart(a, b) == \/ a.x + a.w < b.x
                          \/ b.x + b.w < a.x
                          \/ a.y + a.h < b.y
                          \/ b.y + b.h < a.y
       IN  /\ \A i, j \in 1..5 : i # j => apart(regions[i], regions[j])
           /\ \A i, j \in 1..5 : hit(i) /\ hit(j) => i = j
           /\ ((/\ phase = "run"
                /\ lastOp' # lastOp \/ budget' # budget
                /\ lastOp'.op \in {"prevVideo", "togglePlay", "nextVideo", "cycleVolume",
                                   "scrub", "click"})
                 => /\ \A k \in 1..5 : hit(k) => lastOp'.op = commands[k]
                    /\ (\A k \in 1..5 : ~hit(k)) => lastOp'.op = "click")]_vars

\* C38, its case: a click on the corner of the previous button that is nearest to
\* the play button has gone to the last item
C38_CornerOfPrevClicked ==
    /\ phase = "run"
    /\ lastOp.op = "prevVideo"
    /\ mousePos = [x |-> 50, y |-> 430]
    /\ currentIndex = Len(playlist) - 1
    /\ ~isPointInRect(mousePos.x, mousePos.y, btnPlayArea)

\* C39: after init(), in every state between two operations the volume of the
\* primary element is volumeLevel
C39_ElementVolumeIsLevel == phase = "run" => videoElement.volume = volumeLevel

\* C39, a failing run: the stored volume was not one the element takes, a click on
\* the volume region has stepped volumeLevel and the element has kept its own volume
C39_ElementKeptVolume ==
    /\ phase = "run"
    /\ lastOp.op = "cycleVolume"
    /\ lastOp.err = "volume"
    /\ ~ValidVolume(volumeLevel)
    /\ videoElement.volume = One
    /\ videoElement.volume # volumeLevel

=============================================================================
